---- MODULE Spec2Model ----
(***************************************************************************)
(* pypeduct: the `pyped` decorator (pypeduct/pyping.py), its syntax-tree   *)
(* rewriter PipeTransformer (pypeduct/transformer.py) and the stand-alone  *)
(* `pipes` decorator (pipe_transformer.py).                                *)
(*                                                                         *)
(* Syntax-tree nodes are records with a `type` field named after the ast   *)
(* class.  A Python list returned by visit is the pseudo node List, the    *)
(* Python value None is the pseudo node NoneNode, and a raised exception   *)
(* is the pseudo node Raise, which every caller hands on unchanged.        *)
(* Dictionary keys of the higher-order-function registry are sequences of  *)
(* identifiers: "filter" is <<"filter">>, "m.attr" is <<"m", "attr">>.     *)
(***************************************************************************)
EXTENDS Integers, Sequences, FiniteSets, TLC

\* ------------------------------------------------------------------ bounds
\* longest positional argument list of a generated call
MaxArgs == 2
\* longest keyword list of a generated call
MaxKw == 1
\* number of calls of the wrapper that are followed
MaxCalls == 2

\* ------------------------------------------------------------- ast nodes
NoneNode == [type |-> "None"]
Raise(exc) == [type |-> "Raise", exc |-> exc]
List(items) == [type |-> "List", items |-> items]
Name(id, ctx) == [type |-> "Name", id |-> id, ctx |-> ctx]
Constant(kind, value) == [type |-> "Constant", kind |-> kind, value |-> value]
Tuple(elts) == [type |-> "Tuple", elts |-> elts]
Attribute(value, attr, ctx) == [type |-> "Attribute", value |-> value, attr |-> attr, ctx |-> ctx]
keyword(arg, value) == [type |-> "keyword", arg |-> arg, value |-> value]
Call(func, args, keywords) == [type |-> "Call", func |-> func, args |-> args, keywords |-> keywords]
Starred(value, ctx) == [type |-> "Starred", value |-> value, ctx |-> ctx]
BinOp(left, op, right) == [type |-> "BinOp", left |-> left, op |-> op, right |-> right]
NamedExpr(target, value) == [type |-> "NamedExpr", target |-> target, value |-> value]
arg(name, annotation) == [type |-> "arg", arg |-> name, annotation |-> annotation]
arguments(posonlyargs, args, vararg, defaults) ==
    [type |-> "arguments", posonlyargs |-> posonlyargs, args |-> args,
     vararg |-> vararg, defaults |-> defaults]
Lambda(args, body) == [type |-> "Lambda", args |-> args, body |-> body]
Return(value) == [type |-> "Return", value |-> value]
Global(names) == [type |-> "Global", names |-> names]
Expr(value) == [type |-> "Expr", value |-> value]
Assign(targets, value) == [type |-> "Assign", targets |-> targets, value |-> value]
FunctionDef(name, args, body, decorator_list) ==
    [type |-> "FunctionDef", name |-> name, args |-> args, body |-> body,
     decorator_list |-> decorator_list]
Module(body) == [type |-> "Module", body |-> body]
If(test, body, orelse) == [type |-> "If", test |-> test, body |-> body, orelse |-> orelse]
\* ast.List, a list display `[a, b]` (List above is the list visit returns)
ListDisplay(elts) == [type |-> "ListDisplay", elts |-> elts]

IsRaise(n) == n.type = "Raise"

\* ------------------------------------------------- runtime objects (globals)
\* Objects reachable from the module globals of the decorated function are
\* named by ids; the tables give what inspect.signature reports for them.
\*   obj_f        def f(a)                 one required parameter
\*   obj_g        def g(a, b)              two required parameters
\*   obj_h        def h(a, b=0)            one required, one defaulted
\*   obj_m        a module object          not callable
\*   obj_m_attr   def attr(a, b) of m      two required parameters
\*   obj_m_one    def one(a) of m          one required parameter
\*   obj_add      def add(x, y)            two required parameters
\*   obj_multiply_and_add   def multiply_and_add(x, y)
\*   obj_effect   def effect(x)            one required parameter
\*   obj_gseq     def gseq(a: list, b)     two required, the first a list
ObjSignature(o) ==
    CASE o = "obj_f" -> [raises |-> "None", required |-> 1, positional |-> 1]
      [] o = "obj_add" -> [raises |-> "None", required |-> 2, positional |-> 2]
      [] o = "obj_multiply_and_add" ->
            [raises |-> "None", required |-> 2, positional |-> 2]
      [] o = "obj_effect" -> [raises |-> "None", required |-> 1, positional |-> 1]
      [] o = "obj_gseq" -> [raises |-> "None", required |-> 2, positional |-> 2]
      [] o = "obj_g" -> [raises |-> "None", required |-> 2, positional |-> 2]
      [] o = "obj_h" -> [raises |-> "None", required |-> 1, positional |-> 2]
      [] o = "obj_m_attr" -> [raises |-> "None", required |-> 2, positional |-> 2]
      [] o = "obj_m_one" -> [raises |-> "None", required |-> 1, positional |-> 1]
      [] OTHER -> [raises |-> "TypeError", required |-> 0, positional |-> 0]

ObjGetattr(o, attr) ==
    CASE o = "obj_m" /\ attr = "attr" -> "obj_m_attr"
      [] o = "obj_m" /\ attr = "one" -> "obj_m_one"
      [] OTHER -> "None"

\* func.__globals__ of the decorated function: builtins (filter, map, pow,
\* max) and the locals of the function (x, fn's nested defs) are not in it.
ModuleGlobals ==
    [n \in {"f", "g", "h", "m", "add", "multiply_and_add", "effect", "gseq"} |->
        CASE n = "f" -> "obj_f" [] n = "g" -> "obj_g" [] n = "h" -> "obj_h"
          [] n = "add" -> "obj_add"
          [] n = "multiply_and_add" -> "obj_multiply_and_add"
          [] n = "effect" -> "obj_effect"
          [] n = "gseq" -> "obj_gseq"
          [] OTHER -> "obj_m"]

DictGet(d, k) == IF k \in DOMAIN d THEN d[k] ELSE "None"

RECURSIVE resolve_attribute(_, _)
resolve_attribute(attr_node, globals_dict) ==
    LET base == CASE attr_node.value.type = "Constant" -> "obj_const"
                  [] attr_node.value.type = "Name" ->
                        DictGet(globals_dict, attr_node.value.id)
                  [] attr_node.value.type = "Attribute" ->
                        resolve_attribute(attr_node.value, globals_dict)
                  [] OTHER -> "None"
    IN IF base # "None" THEN ObjGetattr(base, attr_node.attr) ELSE "None"

\* ast annotation of a parameter: list, tuple, Sequence, List, Tuple
is_seq_ast(annotation) ==
    /\ annotation.type = "Name"
    /\ annotation.id \in {"list", "tuple", "Sequence", "List", "Tuple"}

\* is_seq_runtime of an ast node or of None: never a type object
is_seq_runtime(annotation) == FALSE

\* ----------------------------------------------------- PipeTransformer
FunctionParams(num_pos, has_varargs, param_annotations, defaults_count) ==
    [num_pos |-> num_pos, has_varargs |-> has_varargs,
     param_annotations |-> param_annotations, defaults_count |-> defaults_count]

EmptyDict == [n \in {} |-> NoneNode]
DictPut(d, k, v) == [n \in DOMAIN d \cup {k} |-> IF n = k THEN v ELSE d[n]]

\* ------------------------------------------- the module and its decorations
VARIABLES
    default_hof,     \* the keys of the module-level dict DEFAULT_HOF of pyping.py
    module_globals,  \* the data names of the module the definitions live in
    decorations      \* for each decorated definition of the module: its
                     \* source, its add_hofs, where its wrapper stands (pc),
                     \* its registry, its PipeTransformer, the compiled
                     \* tree, ctx, and the last call (args, result, calls)

mvars == <<default_hof, module_globals, decorations>>

\* the profile tables of the transformers constructed so far, in one dict
RECURSIVE AllFunctionParams(_)
AllFunctionParams(ds) ==
    IF ds = {} THEN EmptyDict
    ELSE LET d == CHOOSE x \in ds : TRUE
             rest == AllFunctionParams(ds \ {d})
             own == IF decorations[d].transformer = NoneNode THEN EmptyDict
                    ELSE decorations[d].transformer.function_params
         IN [n \in DOMAIN rest \cup DOMAIN own |->
                IF n \in DOMAIN own THEN own[n] ELSE rest[n]]

\* mutant of PipeTransformer: function_params is one table of the class,
\* which every instance reads and fills
PipeTransformer_class_table(hofs, current_globals) ==
    [hofs |-> hofs, current_globals |-> current_globals,
     function_params |-> AllFunctionParams(DOMAIN decorations),
     current_block_assignments |-> <<>>,
     steps |-> <<>>]

\* PipeTransformer.__init__; steps is the history of the pipe edges the
\* traversal has rewritten so far (left and right as handed over, result).
PipeTransformer(hofs, current_globals) ==
    [hofs |-> hofs, current_globals |-> current_globals,
     function_params |-> EmptyDict,
     current_block_assignments |-> <<>>,
     steps |-> <<>>]

is_ellipsis(node) == node.type = "Constant" /\ node.kind = "ellipsis"

RECURSIVE CountEllipsis(_)
CountEllipsis(nodes) ==
    IF nodes = <<>> THEN 0
    ELSE (IF is_ellipsis(Head(nodes)) THEN 1 ELSE 0) + CountEllipsis(Tail(nodes))

KeywordValues(keywords) ==
    IF keywords = <<>> THEN <<>>
    ELSE [i \in 1..Len(keywords) |-> keywords[i].value]

placeholder_num(args, keywords) ==
    CountEllipsis(args) + CountEllipsis(KeywordValues(keywords))

\* mutant of _is_single_arg_func: parameters with a default are counted too
_is_single_arg_func_counting_defaults(self, func_node) ==
    CASE func_node.type = "Name" ->
            LET func_obj == DictGet(self.current_globals, func_node.id)
            IN IF func_obj # "None"
               THEN /\ ObjSignature(func_obj).raises = "None"
                    /\ ObjSignature(func_obj).positional = 1
               ELSE FALSE
      [] func_node.type = "Attribute" ->
            LET func == resolve_attribute(func_node, self.current_globals)
            IN IF func = "None" THEN FALSE
               ELSE /\ ObjSignature(func).raises = "None"
                    /\ ObjSignature(func).positional = 1
      [] OTHER -> FALSE

_is_single_arg_func(self, func_node) ==
    CASE func_node.type = "Name" ->
            LET func_obj == DictGet(self.current_globals, func_node.id)
            IN IF func_obj # "None"
               THEN /\ ObjSignature(func_obj).raises = "None"
                    /\ ObjSignature(func_obj).required = 1
               ELSE FALSE
      [] func_node.type = "Attribute" ->
            LET func == resolve_attribute(func_node, self.current_globals)
            IN IF func = "None" THEN FALSE
               ELSE /\ ObjSignature(func).raises = "None"
                    /\ ObjSignature(func).required = 1
      [] OTHER -> FALSE

\* mutant of _should_unpack: the left operand is not tested for a tuple
_should_unpack_any_left(self, func_node, left) ==
    IF left.type = "Constant" /\ left.kind \in {"str", "bytes", "int", "float"}
    THEN FALSE
    ELSE IF _is_single_arg_func(self, func_node) THEN FALSE
    ELSE TRUE

_should_unpack(self, func_node, left) ==
    IF left.type = "Constant" /\ left.kind \in {"str", "bytes", "int", "float"}
    THEN FALSE
    ELSE IF _is_single_arg_func(self, func_node) THEN FALSE
    ELSE left.type = "Tuple"

\* the branch for external functions is taken only for a Name or Attribute
\* that is no local function; is_seq_runtime of its first annotation is
\* given by ObjFirstAnnotationIsSeq
ObjFirstAnnotationIsSeq(o) == o = "obj_gseq"

_has_sequence_annotation(self, func_node) ==
    IF func_node.type = "Name" /\ func_node.id \in DOMAIN self.function_params
    THEN LET func_info == self.function_params[func_node.id]
         IN IF func_info.param_annotations = <<>> THEN FALSE
            ELSE is_seq_ast(func_info.param_annotations[1])
                 \/ is_seq_runtime(func_info.param_annotations[1])
    ELSE IF func_node.type = "Lambda" /\ func_node.args.args # <<>>
    THEN is_seq_ast(func_node.args.args[1].annotation)
         \/ is_seq_runtime(func_node.args.args[1].annotation)
    ELSE IF func_node.type \in {"Name", "Attribute"}
    THEN LET func_obj == IF func_node.type = "Name"
                         THEN DictGet(self.current_globals, func_node.id)
                         ELSE resolve_attribute(func_node, self.current_globals)
         IN func_obj # "None" /\ ObjFirstAnnotationIsSeq(func_obj)
    ELSE FALSE

PipeTransformError == "PipeTransformError"

MapReplace(nodes, left) ==
    IF nodes = <<>> THEN <<>>
    ELSE [i \in 1..Len(nodes) |-> IF is_ellipsis(nodes[i]) THEN left ELSE nodes[i]]

MapReplaceKw(keywords, left) ==
    IF keywords = <<>> THEN <<>>
    ELSE [i \in 1..Len(keywords) |->
            IF is_ellipsis(keywords[i].value)
            THEN keyword(keywords[i].arg, left) ELSE keywords[i]]

\* mutant of placeholder_case: the check for a second placeholder is missing
placeholder_case_lenient(left, right) ==
    Call(right.func, MapReplace(right.args, left),
         MapReplaceKw(right.keywords, left))

\* mutant of placeholder_case: the left operand is substituted and inserted
placeholder_case_inserting(left, right) ==
    IF placeholder_num(right.args, right.keywords) > 1
    THEN Raise(PipeTransformError)
    ELSE Call(right.func, <<left>> \o MapReplace(right.args, left),
              MapReplaceKw(right.keywords, left))

\* build_pipe_call, case Call(func, args, keywords) if placeholder_num > 0
placeholder_case(left, right) ==
    IF placeholder_num(right.args, right.keywords) > 1
    THEN Raise(PipeTransformError)
    ELSE Call(right.func, MapReplace(right.args, left),
              MapReplaceKw(right.keywords, left))

\* mutant of hof_name_case: the left operand goes first, as for other calls
hof_name_case_first(left, right) ==
    Call(Name(right.func.id, "Load"), <<left>> \o right.args, right.keywords)

\* build_pipe_call, case Call(Name(id=name), args, keywords) if name in hofs
hof_name_case(left, right) ==
    Call(Name(right.func.id, "Load"), right.args \o <<left>>, right.keywords)

\* build_pipe_call, case Call(Attribute(Name(mod), attr, Load()), ...)
hof_qualname_case(left, right) ==
    Call(Attribute(Name(right.func.value.id, "Load"), right.func.attr, "Load"),
         right.args \o <<left>>, right.keywords)

\* mutant of regular_case: the left operand is put at both ends
regular_case_duplicating(self, left, right) ==
    LET unpack == _should_unpack(self, right.func, left)
        item == IF unpack THEN Starred(left, "Load") ELSE left
    IN Call(right.func, <<item>> \o right.args \o <<item>>, right.keywords)

\* mutant of regular_case: the left operand is appended
regular_case_appending(self, left, right) ==
    LET unpack == _should_unpack(self, right.func, left)
        new_args == IF unpack THEN right.args \o <<Starred(left, "Load")>>
                    ELSE right.args \o <<left>>
    IN Call(right.func, new_args, right.keywords)

\* build_pipe_call, case Call(func, args, keywords)
regular_case(self, left, right) ==
    LET unpack == _should_unpack(self, right.func, left)
        new_args == IF unpack THEN <<Starred(left, "Load")>> \o right.args
                    ELSE <<left>> \o right.args
    IN Call(right.func, new_args, right.keywords)

\* build_pipe_call, case Name(id=name) if name in self.function_params
local_name_case(self, left, right) ==
    LET unpack == /\ left.type = "Tuple"
                  /\ ~ _has_sequence_annotation(self, right)
                  /\ self.function_params[right.id].num_pos # 1
    IN Call(right, IF unpack THEN <<Starred(left, "Load")>> ELSE <<left>>, <<>>)

\* mutant of lambda_case: the number of parameters is not looked at
lambda_case_any_arity(self, left, right) ==
    LET has_seq_annot == _has_sequence_annotation(self, right)
        unpack == left.type = "Tuple" /\ ~ has_seq_annot
    IN Call(right, IF unpack THEN <<Starred(left, "Load")>> ELSE <<left>>, <<>>)

\* build_pipe_call, case Lambda(args=lambda_args)
lambda_case(self, left, right) ==
    LET num_pos == Len(right.args.posonlyargs) + Len(right.args.args)
        has_seq_annot == _has_sequence_annotation(self, right)
        unpack == left.type = "Tuple" /\ ~ has_seq_annot /\ num_pos # 1
    IN Call(right, IF unpack THEN <<Starred(left, "Load")>> ELSE <<left>>, <<>>)

\* mutant of fall_through_case: the test for a tuple literal is missing
fall_through_case_starring(self, left, right) ==
    LET unpack == ~ _is_single_arg_func(self, right)
    IN Call(right, IF unpack THEN <<Starred(left, "Load")>> ELSE <<left>>, <<>>)

\* build_pipe_call, case _
fall_through_case(self, left, right) ==
    LET unpack == left.type = "Tuple" /\ ~ _is_single_arg_func(self, right)
    IN Call(right, IF unpack THEN <<Starred(left, "Load")>> ELSE <<left>>, <<>>)

IsHofName(self, right) ==
    /\ right.type = "Call"
    /\ right.func.type = "Name"
    /\ <<right.func.id>> \in self.hofs

IsHofQualname(self, right) ==
    /\ right.type = "Call"
    /\ right.func.type = "Attribute"
    /\ right.func.value.type = "Name"
    /\ right.func.ctx = "Load"
    /\ <<right.func.value.id, right.func.attr>> \in self.hofs

build_pipe_call(self, left, right) ==
    IF is_ellipsis(left) THEN Raise(PipeTransformError)
    ELSE IF right.type = "Call" /\ placeholder_num(right.args, right.keywords) > 0
    THEN placeholder_case(left, right)
    ELSE IF IsHofName(self, right) THEN hof_name_case(left, right)
    ELSE IF IsHofQualname(self, right) THEN hof_qualname_case(left, right)
    ELSE IF right.type = "Call" THEN regular_case(self, left, right)
    ELSE IF right.type = "Name" /\ right.id \in DOMAIN self.function_params
    THEN local_name_case(self, left, right)
    ELSE IF right.type = "Lambda" THEN lambda_case(self, left, right)
    ELSE fall_through_case(self, left, right)

\* result of one visit: the returned value and the transformer afterwards
R(val, self) == [val |-> val, self |-> self]

\* what NodeTransformer.generic_visit keeps of a value returned for an
\* element of a list field: a list is spliced in, None is dropped
Splice(val) ==
    CASE val.type = "List" -> val.items
      [] val.type = "None" -> <<>>
      [] OTHER -> <<val>>

LogStep(self, via, left, right, result) ==
    [self EXCEPT !.steps =
        Append(@, [via |-> via, left |-> left, right |-> right, result |-> result])]

\* mutant of IsForwardPipe: the operator of the binary expression is not
\* looked at
IsForwardPipe_any_operator(node) == node.type = "BinOp"

\* case BinOp(left, RShift(), right)
IsForwardPipe(node) == node.type = "BinOp" /\ node.op = "RShift"

IsBindingPipe(node) ==
    /\ node.type = "BinOp"
    /\ node.op = "RShift"
    /\ node.right.type = "NamedExpr"
    /\ node.right.target.type = "Name"
    /\ node.right.target.ctx = "Store"

\* the child nodes generic_visit visits, in the order of ast's _fields
Children(node) ==
    CASE node.type = "BinOp" -> <<node.left, node.right>>
      [] node.type = "Call" -> <<node.func>> \o node.args \o node.keywords
      [] node.type = "keyword" -> <<node.value>>
      [] node.type = "Tuple" -> node.elts
      [] node.type = "ListDisplay" -> node.elts
      [] node.type = "Attribute" -> <<node.value>>
      [] node.type = "Starred" -> <<node.value>>
      [] node.type = "NamedExpr" -> <<node.target, node.value>>
      [] node.type = "Lambda" -> <<node.args, node.body>>
      [] node.type = "arguments" -> node.defaults
      [] node.type = "Expr" -> <<node.value>>
      [] node.type = "Assign" -> node.targets \o <<node.value>>
      [] OTHER -> <<>>

\* the node with its children replaced by the visited ones
Rebuild(node, c) ==
    CASE node.type = "BinOp" -> BinOp(c[1], node.op, c[2])
      [] node.type = "Call" ->
            Call(c[1], SubSeq(c, 2, 1 + Len(node.args)),
                 SubSeq(c, 2 + Len(node.args), Len(c)))
      [] node.type = "keyword" -> keyword(node.arg, c[1])
      [] node.type = "Tuple" -> Tuple(c)
      [] node.type = "ListDisplay" -> ListDisplay(c)
      [] node.type = "Attribute" -> Attribute(c[1], node.attr, node.ctx)
      [] node.type = "Starred" -> Starred(c[1], node.ctx)
      [] node.type = "NamedExpr" -> NamedExpr(c[1], c[2])
      [] node.type = "Lambda" -> Lambda(c[1], c[2])
      [] node.type = "arguments" ->
            arguments(node.posonlyargs, node.args, node.vararg, c)
      [] node.type = "Expr" -> Expr(c[1])
      [] node.type = "Assign" ->
            Assign(SubSeq(c, 1, Len(node.targets)), c[Len(c)])
      [] OTHER -> node

\* the call a binding step x >> (y := value) stores in y
new_call(next_left, next_value) ==
    IF next_value.type = "Call"
    THEN Call(next_value.func, <<next_left>> \o next_value.args, next_value.keywords)
    ELSE Call(next_value, <<next_left>>, <<>>)

\* mutant of binding_case: the name is bound to the callable, not to the
\* result of the call
binding_case_binding_callee(var_name, next_left, next_value) ==
    Call(NamedExpr(Name(var_name, "Store"), next_value), <<next_left>>, <<>>)

binding_case(var_name, next_left, next_value) ==
    NamedExpr(Name(var_name, "Store"), new_call(next_left, next_value))

\* mutant of RebuildIf: the statements of both arms end up in the first arm
RebuildIf_merging(test, body, orelse) == If(test, body \o orelse, <<>>)

\* generic_visit on an If: the visited test and the two visited statement
\* lists are stored back into their own fields
RebuildIf(test, body, orelse) == If(test, body, orelse)

RECURSIVE visit(_, _), visit_seq(_, _), process_loop(_, _, _), process_body(_, _),
          generic_visit(_, _)

\* PipeTransformer.visit
visit(self, node) ==
    CASE node.type = "FunctionDef" ->
            LET registered ==
                    [self EXCEPT !.function_params =
                        DictPut(@, node.name,
                            FunctionParams(
                                Len(node.args.posonlyargs) + Len(node.args.args),
                                node.args.vararg # NoneNode,
                                [i \in 1..(Len(node.args.posonlyargs) + Len(node.args.args)) |->
                                    (node.args.posonlyargs \o node.args.args)[i].annotation],
                                Len(node.args.defaults)))]
                pb == process_body(registered, node.body)
            IN IF IsRaise(pb.val) THEN pb
               ELSE R(FunctionDef(node.name, node.args, pb.val.items, node.decorator_list),
                      pb.self)
      [] IsBindingPipe(node) ->
            LET l == visit(self, node.left)
            IN IF IsRaise(l.val) THEN l
               ELSE LET v == visit(l.self, node.right.value)
                    IN IF IsRaise(v.val) THEN v
                       ELSE R(binding_case(node.right.target.id, l.val, v.val),
                              LogStep(v.self, "NamedExpr", l.val, v.val,
                                      new_call(l.val, v.val)))
      [] IsForwardPipe(node) /\ ~ IsBindingPipe(node) ->
            LET l == visit(self, node.left)
            IN IF IsRaise(l.val) THEN l
               ELSE LET r == visit(l.self, node.right)
                    IN IF IsRaise(r.val) THEN r
                       ELSE LET call == build_pipe_call(r.self, l.val, r.val)
                            IN R(call, LogStep(r.self, "build_pipe_call",
                                               l.val, r.val, call))
      [] node.type = "Return" ->
            LET pv == visit(self, node.value)
            IN IF IsRaise(pv.val) THEN pv
               ELSE R(List(pv.self.current_block_assignments \o <<Return(pv.val)>>),
                      pv.self)
      [] OTHER -> generic_visit(self, node)

\* the elements of a list field visited in order (generic_visit's loop)
visit_seq(self, nodes) ==
    IF nodes = <<>> THEN R(List(<<>>), self)
    ELSE LET h == visit(self, Head(nodes))
         IN IF IsRaise(h.val) THEN h
            ELSE LET t == visit_seq(h.self, Tail(nodes))
                 IN IF IsRaise(t.val) THEN t
                    ELSE R(List(Splice(h.val) \o t.val.items), t.self)

\* NodeTransformer.generic_visit
generic_visit(self, node) ==
    CASE node.type = "Module" ->
            LET b == visit_seq(self, node.body)
            IN IF IsRaise(b.val) THEN b ELSE R(Module(b.val.items), b.self)
      [] node.type = "If" ->
            LET t == visit(self, node.test)
            IN IF IsRaise(t.val) THEN t
               ELSE LET b == visit_seq(t.self, node.body)
                    IN IF IsRaise(b.val) THEN b
                       ELSE LET e == visit_seq(b.self, node.orelse)
                            IN IF IsRaise(e.val) THEN e
                               ELSE R(RebuildIf(t.val, b.val.items, e.val.items),
                                      e.self)
      [] OTHER ->
            LET c == visit_seq(self, Children(node))
            IN IF IsRaise(c.val) THEN c ELSE R(Rebuild(node, c.val.items), c.self)

\* the for loop of process_body: body is what is left to visit, processed
\* the statements collected so far
process_loop(self, body, processed) ==
    IF body = <<>> THEN R(List(processed), self)
    ELSE LET result == visit(self, Head(body))
         IN IF IsRaise(result.val) THEN result
            ELSE process_loop(result.self, Tail(body),
                    processed \o (IF result.val.type = "List"
                                  THEN result.val.items ELSE <<result.val>>))

\* the statements of a list last to first
RECURSIVE Reversed(_)
Reversed(stmts) ==
    IF stmts = <<>> THEN <<>> ELSE Append(Reversed(Tail(stmts)), Head(stmts))

\* mutant of process_body: each processed statement is put in front of
\* those before it
process_body_reversed(self, body) ==
    LET original_assignments == self.current_block_assignments
        loop == process_loop([self EXCEPT !.current_block_assignments = <<>>],
                             body, <<>>)
    IN IF IsRaise(loop.val) THEN loop
       ELSE R(List(original_assignments \o Reversed(loop.val.items)), loop.self)

\* PipeTransformer.process_body
process_body(self, body) ==
    LET original_assignments == self.current_block_assignments
        loop == process_loop([self EXCEPT !.current_block_assignments = <<>>],
                             body, <<>>)
    IN IF IsRaise(loop.val) THEN loop
       ELSE R(List(original_assignments \o loop.val.items), loop.self)

\* ------------------------------------------------------------- pyping.py
DEFAULT_HOF == {<<"filter">>, <<"map">>, <<"reduce">>}

\* top_level_node.decorator_list = []
StripDecorators(tree) ==
    IF tree.body # <<>> /\ tree.body[1].type = "FunctionDef"
    THEN Module(<<[tree.body[1] EXCEPT !.decorator_list = <<>>]>>
                \o SubSeq(tree.body, 2, Len(tree.body)))
    ELSE tree

\* _transform_function up to the tree handed to compile: the rewritten tree
\* (or the exception raised by the traversal) and the pipe edges rewritten
_transform_function(source, hofs, current_globals) ==
    LET t == visit(PipeTransformer(hofs, current_globals), source)
    IN [tree |-> IF IsRaise(t.val) THEN t.val ELSE StripDecorators(t.val),
        steps |-> t.self.steps]

\* ---------------------------------------------- running the compiled code
\* The call sites of an expression in the order Python invokes them: the
\* callee expression is evaluated first, then the positional arguments from
\* left to right, then the keyword values, then the call is made.  A lambda
\* expression evaluates its defaults only.
RECURSIVE EvalTrace(_), EvalSeqTrace(_)
EvalTrace(node) ==
    CASE node.type = "Call" ->
            EvalTrace(node.func) \o EvalSeqTrace(node.args)
            \o EvalSeqTrace(KeywordValues(node.keywords)) \o <<node.func>>
      [] node.type = "BinOp" -> EvalTrace(node.left) \o EvalTrace(node.right)
      [] node.type = "Tuple" -> EvalSeqTrace(node.elts)
      [] node.type = "Starred" -> EvalTrace(node.value)
      [] node.type = "Attribute" -> EvalTrace(node.value)
      [] node.type = "NamedExpr" -> EvalTrace(node.value)
      [] node.type = "Lambda" -> EvalSeqTrace(node.args.defaults)
      [] OTHER -> <<>>

EvalSeqTrace(nodes) ==
    IF nodes = <<>> THEN <<>>
    ELSE EvalTrace(Head(nodes)) \o EvalSeqTrace(Tail(nodes))

\* the statements of a function body run up to the first return
RECURSIVE RunBody(_)
RunBody(body) ==
    IF body = <<>> THEN <<>>
    ELSE CASE Head(body).type = "Return" -> EvalTrace(Head(body).value)
           [] Head(body).type = "Expr" ->
                EvalTrace(Head(body).value) \o RunBody(Tail(body))
           [] Head(body).type = "Assign" ->
                EvalTrace(Head(body).value) \o RunBody(Tail(body))
           [] OTHER -> RunBody(Tail(body))

\* transformed(*args, **kwargs): the call sites the transformed function runs
RunTransformed(tree) == RunBody(tree.body[1].body)

\* ---------------------------------------------------- pipe_transformer.py
\* PipeTransformer.__init__ of pipe_transformer.py.  temp_registry keeps the
\* insertion order of the dict; closure_cells and current_closure stay
\* empty as long as no name starting with __pipe_ is stored by the source.
PtTransformer ==
    [temp_registry |-> <<>>, scope_stack |-> <<{}>>, current_closure |-> "None"]

\* f"__pipe_{uuid.uuid4().hex[:8]}": a name not used before
TempName(k) ==
    CASE k = 1 -> "__pipe_1" [] k = 2 -> "__pipe_2" [] k = 3 -> "__pipe_3"
      [] OTHER -> "__pipe_4"

TempNames == {TempName(k) : k \in 1..4}

_is_simple(node) ==
    node.type \in {"Name", "Constant", "Attribute", "Subscript", "Call", "UnaryOp"}

\* _process_lhs: the node put into the call and the transformer afterwards
_process_lhs(self, lhs) ==
    IF ~ _is_simple(lhs)
    THEN LET temp_name == TempName(Len(self.temp_registry) + 1)
         IN R(Name(temp_name, "Load"),
              [self EXCEPT !.temp_registry =
                  Append(@, Assign(<<Name(temp_name, "Store")>>, lhs))])
    ELSE R(lhs, self)

InsertAt(seq, pos, x) ==
    SubSeq(seq, 1, pos) \o <<x>> \o SubSeq(seq, pos + 1, Len(seq))

RECURSIVE pt_visit(_, _), pt_visit_seq(_, _), pt_generic_visit(_, _),
          _transform_pipe(_, _)

\* PipeTransformer._transform_pipe
_transform_pipe(self, node) ==
    LET rhs_call == IF node.right.type = "Call" THEN node.right
                    ELSE Call(node.right, <<>>, <<>>)
        insert_pos == IF node.op = "RShift" THEN 0 ELSE Len(rhs_call.args)
        processed_lhs == _process_lhs(self, node.left)
    IN pt_visit(processed_lhs.self,
                Call(rhs_call.func,
                     InsertAt(rhs_call.args, insert_pos, processed_lhs.val),
                     rhs_call.keywords))

\* NodeVisitor.visit with visit_Module, visit_FunctionDef, visit_Name and
\* visit_BinOp of pipe_transformer.PipeTransformer
pt_visit(self, node) ==
    CASE node.type \in {"Module", "FunctionDef"} ->
            LET pushed == [self EXCEPT !.scope_stack = Append(@, {})]
                g == pt_generic_visit(pushed, node)
            IN IF IsRaise(g.val) THEN g
               ELSE R(g.val, [g.self EXCEPT !.scope_stack =
                                 SubSeq(@, 1, Len(@) - 1)])
      [] node.type = "Name" ->
            IF node.ctx = "Load" /\ node.id \in self.scope_stack[Len(self.scope_stack)]
            THEN R(Raise(PipeTransformError), self)
            ELSE IF node.ctx = "Store" /\ node.id \in TempNames
            THEN R(node, [self EXCEPT !.scope_stack[Len(self.scope_stack)] =
                             @ \cup {node.id}])
            ELSE R(node, self)
      [] node.type = "BinOp" ->
            IF node.op \in {"LShift", "RShift"} THEN _transform_pipe(self, node)
            ELSE R(node, self)
      [] OTHER -> pt_generic_visit(self, node)

pt_visit_seq(self, nodes) ==
    IF nodes = <<>> THEN R(List(<<>>), self)
    ELSE LET h == pt_visit(self, Head(nodes))
         IN IF IsRaise(h.val) THEN h
            ELSE LET t == pt_visit_seq(h.self, Tail(nodes))
                 IN IF IsRaise(t.val) THEN t
                    ELSE R(List(Splice(h.val) \o t.val.items), t.self)

\* NodeTransformer.generic_visit under pipe_transformer.PipeTransformer
pt_generic_visit(self, node) ==
    CASE node.type = "Module" ->
            LET b == pt_visit_seq(self, node.body)
            IN IF IsRaise(b.val) THEN b ELSE R(Module(b.val.items), b.self)
      [] node.type = "FunctionDef" ->
            LET a == pt_visit(self, node.args)
            IN IF IsRaise(a.val) THEN a
               ELSE LET b == pt_visit_seq(a.self, node.body)
                    IN IF IsRaise(b.val) THEN b
                       ELSE LET d == pt_visit_seq(b.self, node.decorator_list)
                            IN IF IsRaise(d.val) THEN d
                               ELSE R(FunctionDef(node.name, a.val, b.val.items,
                                                  d.val.items), d.self)
      [] node.type = "Return" ->
            LET v == pt_visit(self, node.value)
            IN IF IsRaise(v.val) THEN v ELSE R(Return(v.val), v.self)
      [] node.type = "If" ->
            LET t == pt_visit(self, node.test)
            IN IF IsRaise(t.val) THEN t
               ELSE LET b == pt_visit_seq(t.self, node.body)
                    IN IF IsRaise(b.val) THEN b
                       ELSE LET e == pt_visit_seq(b.self, node.orelse)
                            IN IF IsRaise(e.val) THEN e
                               ELSE R(If(t.val, b.val.items, e.val.items), e.self)
      [] OTHER ->
            LET c == pt_visit_seq(self, Children(node))
            IN IF IsRaise(c.val) THEN c ELSE R(Rebuild(node, c.val.items), c.self)

\* PipeTransformer._inject_temp_vars
_inject_temp_vars(self, node) ==
    IF node.type = "Module" /\ self.temp_registry # <<>>
    THEN Module(self.temp_registry \o node.body)
    ELSE node

\* the builtin compile(source, filename, mode): mode has to be a string
compile(mode) ==
    CASE mode = "exec" -> "None"
      [] mode \in {"eval", "single"} -> "None"
      [] mode = "<dict>" -> "TypeError"
      [] OTHER -> "ValueError"

\* pipes(obj): the tree handed to compile and the exception the call ends with
pipes(source) ==
    LET transformer == PtTransformer
        v == pt_visit(transformer, source)
    IN IF IsRaise(v.val) THEN [tree |-> v.val, exc |-> v.val.exc]
       ELSE [tree |-> _inject_temp_vars(v.self, v.val), exc |-> compile("<dict>")]

\* ------------------------------------------------- the decorated sources
Nm(id) == Name(id, "Load")
Num(n) == Constant("int", n)
Ellipsis == Constant("ellipsis", 0)
Params(names) ==
    arguments(<<>>, [i \in 1..Len(names) |-> arg(names[i], NoneNode)], NoneNode, <<>>)

SeqsUpTo(S, n) == UNION {[1..k -> S] : k \in 0..n}

KwName(i) == CASE i = 1 -> "k1" [] i = 2 -> "k2" [] i = 3 -> "k3" [] OTHER -> "k4"

\* keyword lists k1=.., k2=.. (a keyword is not repeated in one call)
KwSeqs ==
    UNION {{[i \in 1..n |-> keyword(KwName(i), vals[i])] :
                vals \in [1..n -> {Num(2), Ellipsis}]} : n \in 0..MaxKw}

ArgAtoms == {Num(1), Ellipsis, Nm("x")}

\* callees of the generated calls: globals f(a), g(a, b), gseq(a: list, b),
\* the builtins filter and zip, the local names myfilter and loc, the
\* attributes of m
CallFuncs ==
    {Nm("f"), Nm("g"), Nm("filter"), Nm("myfilter"), Nm("loc"),
     Attribute(Nm("m"), "attr", "Load"), Attribute(Nm("m"), "one", "Load"),
     Nm("gseq"), Nm("zip")}

Calls ==
    {Call(fn, args, kws) : fn \in CallFuncs, args \in SeqsUpTo(ArgAtoms, MaxArgs),
                           kws \in KwSeqs}

\* lambda a: a / lambda a, b: a / lambda a, b: a + b / lambda a: a + 1 /
\* lambda: 1 / lambda a, b=0: a
Lambdas ==
    {Lambda(Params(<<"a">>), Nm("a")), Lambda(Params(<<"a", "b">>), Nm("a")),
     Lambda(Params(<<"a", "b">>), BinOp(Nm("a"), "Add", Nm("b"))),
     Lambda(Params(<<"a">>), BinOp(Nm("a"), "Add", Num(1))),
     Lambda(Params(<<>>), Num(1)),
     Lambda(arguments(<<>>, <<arg("a", NoneNode), arg("b", NoneNode)>>, NoneNode,
                      <<Num(0)>>), Nm("a"))}

\* u.meth: an attribute of a name that is bound nowhere
BareCallees ==
    {Nm("f"), Nm("g"), Nm("h"), Nm("filter"), Nm("fn"), Nm("loc"),
     Attribute(Nm("m"), "one", "Load"),
     Nm("gseq"), Nm("add"), Nm("multiply_and_add"),
     Attribute(Nm("u"), "meth", "Load")}

BindingValues ==
    BareCallees \cup Lambdas
    \cup {Call(fn, args, <<>>) : fn \in {Nm("g"), Nm("filter"), Nm("pow")},
                                 args \in SeqsUpTo({Num(1), Ellipsis}, MaxArgs)}

Bindings == {NamedExpr(Name("r", "Store"), v) : v \in BindingValues}

Lefts ==
    {Num(5), Ellipsis, Nm("x"), Constant("str", 0), Tuple(<<Num(1), Num(2)>>),
     Call(Nm("g"), <<Num(1)>>, <<>>), NamedExpr(Name("a", "Store"), Num(1)),
     ListDisplay(<<Num(1), Num(2)>>)}

Rights == Calls \cup BareCallees \cup Lambdas \cup Bindings

\* the right operands of the backward pipes: calls are those of f, g and
\* filter with at most one positional argument
BackwardRights ==
    BareCallees \cup Lambdas \cup Bindings
    \cup {Call(fn, args, kws) : fn \in {Nm("f"), Nm("g"), Nm("filter")},
                                args \in SeqsUpTo(ArgAtoms, 1), kws \in KwSeqs}

SinglePipes ==
    {BinOp(l, "RShift", r) : l \in Lefts, r \in Rights}
    \cup {BinOp(l, "LShift", r) : l \in Lefts, r \in BackwardRights}

ChainCallees == {Nm("f"), Nm("g"), Nm("filter"), Nm("fn"), Nm("loc")}

\* v >> f >> g >> h
Chains3 ==
    {BinOp(BinOp(BinOp(v, "RShift", f), "RShift", g), "RShift", h) :
        v \in Lefts, f \in ChainCallees, g \in ChainCallees, h \in ChainCallees}

\* a op b op c with both directions, as in 5 >> str << list, 10 << subtract << 3
Chains2 ==
    {BinOp(BinOp(a, op1, b), op2, c) :
        a \in {Num(5), Nm("x")}, op1 \in {"RShift", "LShift"},
        b \in {Nm("f"), Nm("g"), Call(Nm("g"), <<Num(1)>>, <<>>)},
        op2 \in {"RShift", "LShift"},
        c \in {Nm("f"), Num(3), Call(Nm("g"), <<Num(1)>>, <<>>)}}

\* pipes below another node: in an argument, in a tuple, as the callee
Nested ==
    {Call(Nm("g"), <<BinOp(l, "RShift", r)>>, <<>>) :
        l \in {Num(5), Ellipsis}, r \in {Nm("f"), Call(Nm("g"), <<Ellipsis, Ellipsis>>, <<>>)}}
    \cup {BinOp(Nm("x"), "RShift", Call(Nm("g"), <<BinOp(l, "RShift", Nm("f"))>>, <<>>)) :
        l \in {Num(5), Ellipsis}}

Exprs == SinglePipes \cup Chains3 \cup Chains2 \cup Nested

\* @<decorator>
\* def fn(x):
\*     def loc(a, b): return a
\*     return <expression>
Source(decorator, expression) ==
    Module(<<FunctionDef("fn", Params(<<"x">>),
                <<FunctionDef("loc", Params(<<"a", "b">>), <<Return(Nm("a"))>>, <<>>),
                  Return(expression)>>,
                <<Nm(decorator)>>)>>)

ReturnedExpr(tree) == tree.body[1].body[2].value

\* def fn(x): <first>; <second>
SourceWith(decorator, first, second) ==
    Module(<<FunctionDef("fn", Params(<<"x">>), <<first, second>>,
                         <<Nm(decorator)>>)>>)

\* def loc(<args>): return a
LocDef(args) == FunctionDef("loc", args, <<Return(Nm("a"))>>, <<>>)

\* the parameter lists of the local function loc:
\* (a) / (a, b=0) / (a: list, b) / (a: str, b) / (a: list, b=0)
LocArgs ==
    {Params(<<"a">>),
     arguments(<<>>, <<arg("a", NoneNode), arg("b", NoneNode)>>, NoneNode, <<Num(0)>>),
     arguments(<<>>, <<arg("a", Nm("list")), arg("b", NoneNode)>>, NoneNode, <<>>),
     arguments(<<>>, <<arg("a", Nm("str")), arg("b", NoneNode)>>, NoneNode, <<>>),
     arguments(<<>>, <<arg("a", Nm("list")), arg("b", NoneNode)>>, NoneNode, <<Num(0)>>)}

\* pipes into the local function, bare, called and bound
LocExprs ==
    {BinOp(l, "RShift", r) :
        l \in {Tuple(<<Num(1), Num(2)>>), Tuple(<<Num(1)>>), Nm("x")},
        r \in {Nm("loc"), Call(Nm("loc"), <<Num(1)>>, <<>>),
               NamedExpr(Name("r", "Store"), Nm("loc"))}}

\* (1, 2) >> p >> q with a first step that returns a tuple
TupleChains ==
    {BinOp(BinOp(Tuple(<<Num(1), Num(2)>>), "RShift", p), "RShift", q) :
        p \in {Nm("multiply_and_add"), Nm("g")},
        q \in {Nm("add"), Nm("f"), Nm("loc"),
               Lambda(Params(<<"a", "b">>), BinOp(Nm("a"), "Add", Nm("b")))}}

\* pipes whose right operand reads the name the left operand binds:
\* (a := m.one) >> a / (a := m) >> a.one / (a := 1) >> g(a) /
\* (a := 1) >> g(a, ...) / (a := 1) >> filter(a)
OrderExprs ==
    {BinOp(NamedExpr(Name("a", "Store"), Attribute(Nm("m"), "one", "Load")),
           "RShift", Nm("a")),
     BinOp(NamedExpr(Name("a", "Store"), Nm("m")),
           "RShift", Attribute(Nm("a"), "one", "Load")),
     BinOp(NamedExpr(Name("a", "Store"), Num(1)),
           "RShift", Call(Nm("g"), <<Nm("a")>>, <<>>)),
     BinOp(NamedExpr(Name("a", "Store"), Num(1)),
           "RShift", Call(Nm("g"), <<Nm("a"), Ellipsis>>, <<>>)),
     BinOp(NamedExpr(Name("a", "Store"), Num(1)),
           "RShift", Call(Nm("filter"), <<Nm("a")>>, <<>>))}

\* the values v and callables of the binding chains
\* (a := v) >> (b := p) >> (c := q); return a, b, c
WalrusChains ==
    {BinOp(BinOp(NamedExpr(Name("a", "Store"), v), "RShift",
                 NamedExpr(Name("b", "Store"), p)), "RShift",
           NamedExpr(Name("c", "Store"), q)) :
        v \in {Num(1), Nm("x")},
        p \in {Lambda(Params(<<"a">>), BinOp(Nm("a"), "Add", Num(1))), Nm("f")},
        q \in {Lambda(Params(<<"a">>), BinOp(Nm("a"), "Mult", Num(2))), Nm("effect"),
               Call(Nm("g"), <<Num(1)>>, <<>>)}}

\* if x: (res := v) >> effect >> print  else: (res := w) >> effect >> print
\* return res
Conditionals ==
    {If(Nm("x"),
        <<Expr(BinOp(BinOp(NamedExpr(Name("res", "Store"), v), "RShift", Nm("effect")),
                     "RShift", Nm("print")))>>,
        <<Expr(BinOp(BinOp(NamedExpr(Name("res", "Store"), w), "RShift", Nm("effect")),
                     "RShift", Nm("print")))>>) :
        v \in {Num(2), Num(4)}, w \in {Num(3)}}

\* l + r and l * r, the operands plain or pipes:
\* 5 + (lambda a: a * 2), (x >> f) + (3 >> f), ((1, 2) >> g) * 3
ArithOperands ==
    {Num(5), Num(3), Lambda(Params(<<"a">>), BinOp(Nm("a"), "Mult", Num(2))),
     BinOp(Nm("x"), "RShift", Nm("f")), BinOp(Num(3), "RShift", Nm("f")),
     BinOp(Tuple(<<Num(1), Num(2)>>), "RShift", Nm("g"))}

ArithExprs == {BinOp(l, op, r) : l \in ArithOperands, op \in {"Add", "Mult"},
                                 r \in ArithOperands}

\* a local function whose body binds in a pipe, then defines a function of
\* its own whose body pipes:
\* def loc(a):
\*     a >> (r := p)
\*     def inner(b): return b >> q
\*     return r >> inner
NestedDefs ==
    {FunctionDef("loc", Params(<<"a">>),
        <<Expr(BinOp(Nm("a"), "RShift", NamedExpr(Name("r", "Store"), p))),
          FunctionDef("inner", Params(<<"b">>),
                      <<Return(BinOp(Nm("b"), "RShift", q))>>, <<>>),
          Return(BinOp(Nm("r"), "RShift", Nm("inner")))>>, <<>>) :
        p \in {Nm("f"), Nm("effect")}, q \in {Nm("f"), Nm("effect"), Nm("print")}}

\* a >> (b >> c): the right operand is itself a parenthesised pipe
ParenPipes ==
    {BinOp(a, "RShift", BinOp(Num(2), "RShift", c)) :
        a \in {Nm("x"), Num(5)}, c \in {Nm("f"), Nm("g")}}

\* the definitions a decorator is applied to
\* @<decorator>
\* @<other>
\* def fn(x): ...
Stacked(source, decorator, other) ==
    Module(<<[source.body[1] EXCEPT !.decorator_list = <<Nm(decorator), Nm(other)>>]>>)

\* the expressions returned by the definitions under two decorators
StackedExprs ==
    {BinOp(Nm("x"), "RShift", Nm("f")),
     BinOp(Tuple(<<Num(1), Num(2)>>), "RShift", Nm("g"))}

Sources(decorator) ==
    {Source(decorator, e) : e \in Exprs \cup TupleChains \cup OrderExprs \cup ParenPipes
                                  \cup ArithExprs}
    \cup {SourceWith(decorator, LocDef(a), Return(e)) : a \in LocArgs, e \in LocExprs}
    \cup {SourceWith(decorator, Expr(e),
                     Return(Tuple(<<Nm("a"), Nm("b"), Nm("c")>>))) : e \in WalrusChains}
    \cup {SourceWith(decorator, c, Return(Nm("res"))) : c \in Conditionals}
    \cup {SourceWith(decorator, n, Return(BinOp(Nm("x"), "RShift", Nm("loc")))) :
            n \in NestedDefs}
    \cup {Stacked(Source(decorator, e), decorator, "validate") : e \in StackedExprs}

\* add_hofs of the decoration
AddHofs == {{}, {<<"m", "attr">>}, {<<"myfilter">>}}

\* the identifiers and attribute names a list of nodes mentions
RECURSIVE Idents(_)
Idents(nodes) ==
    IF nodes = <<>> THEN {}
    ELSE LET n == Head(nodes)
             here ==
                CASE n.type = "Name" -> {n.id}
                  [] n.type = "Attribute" -> {n.attr} \cup Idents(<<n.value>>)
                  [] n.type = "Module" -> Idents(n.body)
                  [] n.type = "FunctionDef" -> Idents(n.body)
                  [] n.type = "Return" -> Idents(<<n.value>>)
                  [] n.type = "If" -> Idents(<<n.test>> \o n.body \o n.orelse)
                  [] OTHER -> Idents(Children(n))
         IN here \cup Idents(Tail(nodes))

\* the add_hofs a definition is decorated with: nothing, or a registration
\* of a function the definition mentions
AddHofsOf(source) ==
    {ah \in AddHofs : \A key \in ah : key[Len(key)] \in Idents(<<source>>)}

\* ------------------------------------------------ the values of a run
\* What the interpreter does with the compiled tree: values, name lookup,
\* parameter binding, expression evaluation and statement execution.
IntV(n) == [k |-> "int", n |-> n]
StrV(s) == [k |-> "str", s |-> s]
TupV(items) == [k |-> "tuple", items |-> items]
ListV(items) == [k |-> "list", items |-> items]
NoneV == [k |-> "none"]
EllipsisV == [k |-> "ellipsis"]
ErrV(exc) == [k |-> "error", exc |-> exc]
FuncV(name, args, defaults, body) ==
    [k |-> "function", name |-> name, args |-> args, defaults |-> defaults,
     body |-> body]
BuiltinV(name) == [k |-> "builtin", name |-> name]
ObjV(o) == [k |-> "object", o |-> o]
\* the result of a builtin other than print: not interpreted further
OpaqueV(name, args) == [k |-> "opaque", name |-> name, args |-> args]

IsErr(v) == v.k = "error"

\* an evaluation result: the value (or the exception) and the frame after it
V(v, st) == [v |-> v, st |-> st]

\* depth of nested calls after which the interpreter raises RecursionError
RecursionLimit == 4

Builtins == {"filter", "map", "pow", "print", "zip", "list", "str", "sum"}

ConstValue(node) ==
    CASE node.kind = "int" -> IntV(node.value)
      [] node.kind = "str" -> StrV(<<node.value>>)
      [] node.kind = "ellipsis" -> EllipsisV
      [] OTHER -> NoneV

\* the bodies of the functions found in the module globals
ObjValue(o) ==
    CASE o = "obj_f" ->
            FuncV("f", Params(<<"a">>), <<>>,
                  <<Return(BinOp(Nm("a"), "Add", Num(1)))>>)
      [] o = "obj_g" ->
            FuncV("g", Params(<<"a", "b">>), <<>>,
                  <<Return(BinOp(Nm("a"), "Add", Nm("b")))>>)
      [] o = "obj_h" ->
            FuncV("h", Params(<<"a", "b">>), <<IntV(0)>>,
                  <<Return(BinOp(Nm("a"), "Add", Nm("b")))>>)
      [] o = "obj_m_attr" ->
            FuncV("attr", Params(<<"a", "b">>), <<>>,
                  <<Return(BinOp(Nm("a"), "Add", Nm("b")))>>)
      [] o = "obj_m_one" ->
            FuncV("one", Params(<<"a">>), <<>>, <<Return(Nm("a"))>>)
      [] o = "obj_add" ->
            FuncV("add", Params(<<"x", "y">>), <<>>,
                  <<Return(BinOp(Nm("x"), "Add", Nm("y")))>>)
      [] o = "obj_multiply_and_add" ->
            FuncV("multiply_and_add", Params(<<"x", "y">>), <<>>,
                  <<Return(Tuple(<<BinOp(Nm("x"), "Mult", Nm("y")),
                                   BinOp(Nm("x"), "Add", Nm("y"))>>))>>)
      [] o = "obj_effect" ->
            FuncV("effect", Params(<<"x">>), <<>>,
                  <<Return(BinOp(Nm("x"), "Mult", Nm("x")))>>)
      [] o = "obj_gseq" ->
            FuncV("gseq", Params(<<"a", "b">>), <<>>, <<Return(Nm("a"))>>)
      [] OTHER -> ObjV(o)

RECURSIVE Pow2(_)
Pow2(n) == IF n <= 0 THEN 1 ELSE 2 * Pow2(n - 1)

RECURSIVE Repeat(_, _)
Repeat(items, n) == IF n <= 0 THEN <<>> ELSE items \o Repeat(items, n - 1)

\* a + b, a * b, a >> b, a << b on values
BinaryOp(op, a, b) ==
    CASE op = "Add" /\ a.k = "int" /\ b.k = "int" -> IntV(a.n + b.n)
      [] op = "Add" /\ a.k = "tuple" /\ b.k = "tuple" -> TupV(a.items \o b.items)
      [] op = "Add" /\ a.k = "list" /\ b.k = "list" -> ListV(a.items \o b.items)
      [] op = "Add" /\ a.k = "str" /\ b.k = "str" -> StrV(a.s \o b.s)
      [] op = "Mult" /\ a.k = "int" /\ b.k = "int" -> IntV(a.n * b.n)
      [] op = "Mult" /\ a.k \in {"tuple", "list", "str"} /\ b.k = "int" ->
            IF a.k = "str" THEN StrV(Repeat(a.s, b.n))
            ELSE [a EXCEPT !.items = Repeat(a.items, b.n)]
      [] op = "Mult" /\ a.k = "int" /\ b.k \in {"tuple", "list", "str"} ->
            IF b.k = "str" THEN StrV(Repeat(b.s, a.n))
            ELSE [b EXCEPT !.items = Repeat(b.items, a.n)]
      [] op = "RShift" /\ a.k = "int" /\ b.k = "int" -> IntV(a.n \div Pow2(b.n))
      [] op = "LShift" /\ a.k = "int" /\ b.k = "int" -> IntV(a.n * Pow2(b.n))
      [] OTHER -> ErrV("TypeError")

\* bool(value)
Truthy(v) ==
    CASE v.k = "int" -> v.n # 0
      [] v.k = "none" -> FALSE
      [] v.k \in {"tuple", "list"} -> v.items # <<>>
      [] v.k = "str" -> v.s # <<>>
      [] OTHER -> TRUE

\* getattr(value, attr)
GetAttr(v, attr) ==
    IF v.k = "object" /\ ObjGetattr(v.o, attr) # "None"
    THEN ObjValue(ObjGetattr(v.o, attr))
    ELSE ErrV("AttributeError")

\* the names a function body binds (its local variables, parameters apart):
\* targets of assignments and of binding expressions, names of nested defs
RECURSIVE StoreNames(_)
StoreNames(nodes) ==
    IF nodes = <<>> THEN {}
    ELSE LET n == Head(nodes)
             here ==
                CASE n.type = "FunctionDef" -> {n.name}
                  [] n.type = "Lambda" -> {}
                  [] n.type = "Name" -> IF n.ctx = "Store" THEN {n.id} ELSE {}
                  [] n.type = "Return" -> StoreNames(<<n.value>>)
                  [] n.type = "If" ->
                        StoreNames(<<n.test>> \o n.body \o n.orelse)
                  [] OTHER -> StoreNames(Children(n))
         IN here \cup StoreNames(Tail(nodes))

ParamNames(args) ==
    LET ps == args.posonlyargs \o args.args
    IN IF ps = <<>> THEN <<>> ELSE [i \in 1..Len(ps) |-> ps[i].arg]

SeqRange(s) == {s[i] : i \in DOMAIN s}

\* the names a function body declares global
RECURSIVE GlobalNames(_)
GlobalNames(stmts) ==
    IF stmts = <<>> THEN {}
    ELSE (CASE Head(stmts).type = "Global" -> SeqRange(Head(stmts).names)
            [] Head(stmts).type = "If" ->
                  GlobalNames(Head(stmts).body \o Head(stmts).orelse)
            [] OTHER -> {})
         \cup GlobalNames(Tail(stmts))

LocalNames(fv) ==
    SeqRange(ParamNames(fv.args))
    \cup (IF fv.args.vararg # NoneNode THEN {fv.args.vararg.arg} ELSE {})
    \cup (StoreNames(fv.body) \ GlobalNames(fv.body))

\* the data names of the module the decorated definitions live in, as the
\* module binds them before anything is called: gv = 10, counter = 0
ModuleData ==
    [n \in {"gv", "counter"} |-> IF n = "gv" THEN IntV(10) ELSE IntV(0)]

\* the transformed definition as exec(compile(tree), ctx) leaves it in ctx
FuncOfTop(top) ==
    FuncV(top.name, top.args,
          IF top.args.defaults = <<>> THEN <<>>
          ELSE [i \in 1..Len(top.args.defaults) |-> ConstValue(top.args.defaults[i])],
          top.body)

\* LOAD_FAST / LOAD_GLOBAL: a local name, else ctx (the data names and the
\* functions of the module globals and the transformed definition itself),
\* else a builtin
Lookup(id, st) ==
    IF id \in st.locals
    THEN IF id \in DOMAIN st.env THEN st.env[id] ELSE ErrV("UnboundLocalError")
    ELSE IF id \in DOMAIN st.globals THEN st.globals[id]
    ELSE IF id = st.top.name THEN FuncOfTop(st.top)
    ELSE IF id \in DOMAIN ModuleGlobals THEN ObjValue(ModuleGlobals[id])
    ELSE IF id \in Builtins THEN BuiltinV(id)
    ELSE ErrV("NameError")

\* STORE_FAST for a local name, STORE_GLOBAL (into ctx) for a name the body
\* declares global
Bind(st, id, v) ==
    IF id \in st.locals
    THEN [st EXCEPT !.env = [n \in DOMAIN st.env \cup {id} |->
                                IF n = id THEN v ELSE st.env[n]]]
    ELSE [st EXCEPT !.globals = [n \in DOMAIN st.globals \cup {id} |->
                                    IF n = id THEN v ELSE st.globals[n]]]

EmptyEnv == [n \in {} |-> NoneV]

KwNames(kw) == IF kw = <<>> THEN <<>> ELSE [i \in 1..Len(kw) |-> kw[i][1]]

KwValue(kw, name) ==
    (CHOOSE i \in DOMAIN kw : kw[i][1] = name) 

\* the local variables of a call of fv with positional values pos and
\* keyword values kw (pairs of name and value), or the TypeError of the call
BindParams(fv, pos, kw) ==
    LET names == ParamNames(fv.args)
        n == Len(names)
        nd == Len(fv.defaults)
        np == Len(fv.args.posonlyargs)
        vararg == fv.args.vararg
        given == SeqRange(KwNames(kw))
        byKw(i) == names[i] \in given
        ok == /\ (Len(pos) <= n \/ vararg # NoneNode)
              /\ \A j \in DOMAIN kw :
                    \E i \in 1..n : /\ names[i] = kw[j][1]
                                    /\ i > Len(pos)
                                    /\ i > np
              /\ \A i \in 1..n :
                    i > Len(pos) => (byKw(i) \/ i > n - nd)
        value(i) == IF i <= Len(pos) THEN pos[i]
                    ELSE IF byKw(i) THEN kw[KwValue(kw, names[i])][2]
                    ELSE fv.defaults[i - (n - nd)]
        rest == IF Len(pos) > n THEN SubSeq(pos, n + 1, Len(pos)) ELSE <<>>
        dom == SeqRange(names)
               \cup (IF vararg # NoneNode THEN {vararg.arg} ELSE {})
    IN IF ~ ok THEN ErrV("TypeError")
       ELSE [k |-> "env",
             env |-> [x \in dom |->
                        IF x \in SeqRange(names)
                        THEN value(CHOOSE i \in 1..n : names[i] = x)
                        ELSE TupV(rest)]]

RECURSIVE Eval(_, _, _), EvalRight(_, _, _), EvalCallArgs(_, _, _),
          EvalCallKeywords(_, _, _, _), MakeCall(_, _, _, _),
          EvalArgs(_, _, _, _), EvalArgsRest(_, _, _, _),
          EvalKeywords(_, _, _, _), EvalKeywordsRest(_, _, _, _),
          Apply(_, _, _, _, _), ApplyBound(_, _, _, _, _, _),
          Exec(_, _, _), ExecNext(_, _, _), ExecAssign(_, _, _),
          ExecDef(_, _, _), ExecArm(_, _, _), ExecAfterArm(_, _, _)

\* what becomes of an evaluated operand: an exception is passed on
AsTuple(a) == IF IsErr(a.v) THEN a ELSE V(TupV(a.v.items), a.st)
AsList(a) == IF IsErr(a.v) THEN a ELSE V(ListV(a.v.items), a.st)
AttrOf(b, attr) == IF IsErr(b.v) THEN b ELSE V(GetAttr(b.v, attr), b.st)
Bound(x, id) == IF IsErr(x.v) THEN x ELSE V(x.v, Bind(x.st, id, x.v))
AsLambda(node, ds) ==
    IF IsErr(ds.v) THEN ds
    ELSE V(FuncV("<lambda>", node.args, ds.v.items, <<Return(node.body)>>), ds.st)
BinResult(op, l, r) ==
    IF IsErr(r.v) THEN r ELSE V(BinaryOp(op, l.v, r.v), r.st)

\* the value of an expression
Eval(node, st, d) ==
    CASE node.type = "Constant" -> V(ConstValue(node), st)
      [] node.type = "Name" -> V(Lookup(node.id, st), st)
      [] node.type = "Tuple" -> AsTuple(EvalArgs(node.elts, <<>>, st, d))
      [] node.type = "ListDisplay" -> AsList(EvalArgs(node.elts, <<>>, st, d))
      [] node.type = "Attribute" -> AttrOf(Eval(node.value, st, d), node.attr)
      [] node.type = "NamedExpr" -> Bound(Eval(node.value, st, d), node.target.id)
      [] node.type = "Lambda" ->
            AsLambda(node, EvalArgs(node.args.defaults, <<>>, st, d))
      [] node.type = "BinOp" -> EvalRight(node, Eval(node.left, st, d), d)
      [] node.type = "Call" -> EvalCallArgs(node, Eval(node.func, st, d), d)
      [] OTHER -> V(ErrV("SyntaxError"), st)

\* a binary operation once its left operand l is evaluated
EvalRight(node, l, d) ==
    IF IsErr(l.v) THEN l
    ELSE BinResult(node.op, l, Eval(node.right, l.st, d))

\* a call once its callee f is evaluated: the positional arguments, then
\* the keyword values, then the call
EvalCallArgs(node, f, d) ==
    IF IsErr(f.v) THEN f
    ELSE EvalCallKeywords(node, f, EvalArgs(node.args, <<>>, f.st, d), d)

EvalCallKeywords(node, f, a, d) ==
    IF IsErr(a.v) THEN a
    ELSE MakeCall(f, a, EvalKeywords(node.keywords, <<>>, a.st, d), d)

MakeCall(f, a, kw, d) ==
    IF IsErr(kw.v) THEN kw ELSE Apply(f.v, a.v.items, kw.v.items, kw.st, d)

\* the values of an argument list, a starred argument spread into it
EvalArgs(nodes, done, st, d) ==
    IF nodes = <<>> THEN V(TupV(done), st)
    ELSE EvalArgsRest(nodes, done,
                      Eval(IF Head(nodes).type = "Starred" THEN Head(nodes).value
                           ELSE Head(nodes), st, d),
                      d)

EvalArgsRest(nodes, done, x, d) ==
    IF IsErr(x.v) THEN x
    ELSE IF Head(nodes).type # "Starred"
    THEN EvalArgs(Tail(nodes), Append(done, x.v), x.st, d)
    ELSE IF x.v.k \in {"tuple", "list"}
    THEN EvalArgs(Tail(nodes), done \o x.v.items, x.st, d)
    ELSE V(ErrV("TypeError"), x.st)

EvalKeywords(kws, done, st, d) ==
    IF kws = <<>> THEN V(TupV(done), st)
    ELSE EvalKeywordsRest(kws, done, Eval(Head(kws).value, st, d), d)

EvalKeywordsRest(kws, done, x, d) ==
    IF IsErr(x.v) THEN x
    ELSE EvalKeywords(Tail(kws), Append(done, <<Head(kws).arg, x.v>>), x.st, d)

\* every call made is appended to the log of the run
Logged(st, fv, pos, kw) ==
    [st EXCEPT !.log = Append(@, [f |-> fv.name, args |-> pos, kw |-> kw])]

\* the caller's frame after a call that ended with r
Returned(st, r) == V(r.v, [st EXCEPT !.log = r.st.log, !.globals = r.st.globals])

\* callee(*pos, **kw)
Apply(fv, pos, kw, st, d) ==
    CASE fv.k = "function" ->
            IF d = 0 THEN V(ErrV("RecursionError"), st)
            ELSE ApplyBound(fv, pos, kw, BindParams(fv, pos, kw), st, d)
      [] fv.k = "builtin" ->
            V(IF fv.name = "print" THEN NoneV ELSE OpaqueV(fv.name, pos),
              Logged(st, fv, pos, kw))
      [] OTHER -> V(ErrV("TypeError"), st)

\* the body of the callee run in a new frame b, unless binding raised
ApplyBound(fv, pos, kw, b, st, d) ==
    IF IsErr(b) THEN V(b, st)
    ELSE Returned(st, Exec(fv.body,
                           [Logged(st, fv, pos, kw) EXCEPT
                                !.env = b.env, !.locals = LocalNames(fv)],
                           d - 1))

\* a body left by a return statement or by an exception
Leave(x) == [v |-> x.v, st |-> x.st, ret |-> TRUE]

\* the statements of a body: the returned value (None at the end of the
\* body), the frame, and whether the body has returned or raised
Exec(stmts, st, d) ==
    IF stmts = <<>> THEN [v |-> NoneV, st |-> st, ret |-> FALSE]
    ELSE CASE Head(stmts).type = "Return" -> Leave(Eval(Head(stmts).value, st, d))
           [] Head(stmts).type = "Expr" ->
                ExecNext(stmts, Eval(Head(stmts).value, st, d), d)
           [] Head(stmts).type = "Assign" ->
                ExecAssign(stmts, Eval(Head(stmts).value, st, d), d)
           [] Head(stmts).type = "FunctionDef" ->
                ExecDef(stmts, EvalArgs(Head(stmts).args.defaults, <<>>, st, d), d)
           [] Head(stmts).type = "If" ->
                ExecArm(stmts, Eval(Head(stmts).test, st, d), d)
           [] OTHER -> Exec(Tail(stmts), st, d)

ExecNext(stmts, x, d) ==
    IF IsErr(x.v) THEN Leave(x) ELSE Exec(Tail(stmts), x.st, d)

ExecAssign(stmts, x, d) ==
    IF IsErr(x.v) THEN Leave(x)
    ELSE Exec(Tail(stmts), Bind(x.st, Head(stmts).targets[1].id, x.v), d)

ExecDef(stmts, ds, d) ==
    IF IsErr(ds.v) THEN Leave(ds)
    ELSE Exec(Tail(stmts),
              Bind(ds.st, Head(stmts).name,
                   FuncV(Head(stmts).name, Head(stmts).args, ds.v.items,
                         Head(stmts).body)), d)

ExecArm(stmts, t, d) ==
    IF IsErr(t.v) THEN Leave(t)
    ELSE ExecAfterArm(stmts,
                      Exec(IF Truthy(t.v) THEN Head(stmts).body
                           ELSE Head(stmts).orelse, t.st, d),
                      d)

ExecAfterArm(stmts, r, d) ==
    IF r.ret THEN r ELSE Exec(Tail(stmts), r.st, d)

Outcome(r) == [result |-> r.v, log |-> r.st.log]
OutcomeIn(r) == [result |-> r.v, globals |-> r.st.globals]

\* transformed(*args): the value returned (or the exception raised) and the
\* calls made, the call of the transformed definition itself first
RunCall(tree, args) ==
    Outcome(Apply(FuncOfTop(tree.body[1]), args, <<>>,
                  [env |-> EmptyEnv, locals |-> {}, log |-> <<>>,
                   top |-> tree.body[1], globals |-> ModuleData],
                  RecursionLimit))

\* transformed(*args) with ctx as its globals: the value returned (or the
\* exception raised) and ctx after the call
RunCallIn(tree, args, ctx) ==
    OutcomeIn(Apply(FuncOfTop(tree.body[1]), args, <<>>,
                    [env |-> EmptyEnv, locals |-> {}, log |-> <<>>,
                     top |-> tree.body[1], globals |-> ctx],
                    RecursionLimit))

\* ---------------------------------------------------------------- state
VARIABLES
    src,          \* the parsed source of the decorated definition
    decorator,    \* "pyped" or "pipes"
    add_hofs,     \* the add_hofs argument of pyped
    hofs,         \* the registry of the decoration
    phase,        \* "defined", "decorated" (wrapper returned), "piped"
    transformed,  \* the nonlocal slot of the wrapper: NoneNode or the tree
    tree,         \* the tree the last transformation handed to compile
    steps,        \* the pipe edges the last transformation rewrote
    exc,          \* the exception the last operation ended with, or "None"
    calls,        \* number of calls of the wrapper
    n_visit,      \* number of traversals by PipeTransformer.visit
    n_exec,       \* number of exec(compile(tree)) of pyping.py
    n_run,        \* number of invocations of the transformed callable
    trace,        \* call sites run by the last invocation, in order
    args,         \* the positional arguments of the last call of the wrapper
    result,       \* what the last invocation returned or raised
    log           \* the calls the last invocation made, with their values

vars == <<src, decorator, add_hofs, hofs, phase, transformed, tree, steps, exc,
          calls, n_visit, n_exec, n_run, trace, args, result, log,
          default_hof, module_globals, decorations>>

\* the values the decorated function is called with
CallArgs == {IntV(0), TupV(<<IntV(3), IntV(4)>>)}

Init ==
    /\ decorator \in {"pyped", "pipes"}
    /\ src \in Sources(decorator)
    /\ add_hofs \in (IF decorator = "pyped" THEN AddHofsOf(src) ELSE {{}})
    /\ hofs = {}
    /\ phase = "defined"
    /\ transformed = NoneNode
    /\ tree = NoneNode
    /\ steps = <<>>
    /\ exc = "None"
    /\ calls = 0
    /\ n_visit = 0
    /\ n_exec = 0
    /\ n_run = 0
    /\ trace = <<>>
    /\ args = <<>>
    /\ result = NoneV
    /\ log = <<>>
    /\ default_hof = DEFAULT_HOF
    /\ module_globals = ModuleData
    /\ decorations = <<>>

\* pyped(obj) / pyped(add_hofs=...)(obj): actual_decorator returns the wrapper
Pyped ==
    /\ phase = "defined"
    /\ decorator = "pyped"
    /\ phase' = "decorated"
    /\ transformed' = NoneNode
    /\ hofs' = DEFAULT_HOF \cup add_hofs
    /\ UNCHANGED <<src, decorator, add_hofs, tree, steps, exc, calls, n_visit,
                   n_exec, n_run, trace, args, result, log>>
    /\ UNCHANGED mvars

\* mutant of wrapper_return: when the transformation raises, the original
\* definition is called instead
wrapper_return_falling_back(obj, t, call_args) ==
    IF IsRaise(t) THEN RunCall(obj, call_args) ELSE RunCall(t, call_args)

\* what a call of the wrapper that has to transform yields: the exception
\* of the transformation, which leaves the wrapper before anything is
\* called, or the outcome of transformed(*args)
wrapper_return(obj, t, call_args) ==
    IF IsRaise(t) THEN [result |-> ErrV(t.exc), log |-> <<>>]
    ELSE RunCall(t, call_args)

\* mutant of cache_is_empty: the wrapper never finds a cached definition
cache_is_empty_always(cached) == TRUE

\* `if transformed is None:` of the wrapper
cache_is_empty(cached) == cached = NoneNode

\* wrapper(*args, **kwargs)
Wrapper ==
    /\ phase = "decorated"
    /\ calls < MaxCalls
    /\ calls' = calls + 1
    /\ \E a \in CallArgs : args' = <<a>>
    /\ IF cache_is_empty(transformed)
       THEN LET t == _transform_function(src, hofs, ModuleGlobals)
            IN /\ n_visit' = n_visit + 1
               /\ steps' = t.steps
               /\ tree' = t.tree
               /\ result' = wrapper_return(src, t.tree, args').result
               /\ log' = wrapper_return(src, t.tree, args').log
               /\ IF IsRaise(t.tree)
                  THEN /\ exc' = t.tree.exc
                       /\ UNCHANGED <<transformed, n_exec, n_run, trace>>
                  ELSE /\ exc' = compile("exec")
                       /\ transformed' = t.tree
                       /\ n_exec' = n_exec + 1
                       /\ n_run' = n_run + 1
                       /\ trace' = RunTransformed(t.tree)
       ELSE /\ exc' = "None"
            /\ n_run' = n_run + 1
            /\ trace' = RunTransformed(transformed)
            /\ result' = RunCall(transformed, args').result
            /\ log' = RunCall(transformed, args').log
            /\ UNCHANGED <<transformed, tree, steps, n_visit, n_exec>>
    /\ UNCHANGED <<src, decorator, add_hofs, hofs, phase>>
    /\ UNCHANGED mvars

\* pipes(obj) of pipe_transformer.py
Pipes ==
    /\ phase = "defined"
    /\ decorator = "pipes"
    /\ phase' = "piped"
    /\ tree' = pipes(src).tree
    /\ exc' = pipes(src).exc
    /\ UNCHANGED <<src, decorator, add_hofs, hofs, transformed, steps, calls,
                   n_visit, n_exec, n_run, trace, args, result, log>>
    /\ UNCHANGED mvars

Next == Pyped \/ Wrapper \/ Pipes

Spec == Init /\ [][Next]_vars

\* ------------------------------------ two decorated definitions, one module
\* The wrappers of two decorated definitions of one module, each running its
\* first call step by step (construct the transformer, traverse and compile,
\* call), in any interleaving with the other and with the module rebinding
\* one of its data names.
Decorations == {1, 2}

\* def fn(x):
\*     def g(a): return a
\*     return x >> g
LocalG ==
    SourceWith("pyped", FunctionDef("g", Params(<<"a">>), <<Return(Nm("a"))>>, <<>>),
               Return(BinOp(Nm("x"), "RShift", Nm("g"))))

\* def fn(x): 0; return (1, 2) >> g           (g of the module)
GlobalG ==
    SourceWith("pyped", Expr(Num(0)),
               Return(BinOp(Tuple(<<Num(1), Num(2)>>), "RShift", Nm("g"))))

\* def fn(x): 0; return gv >> f
ReadsGlobal ==
    SourceWith("pyped", Expr(Num(0)), Return(BinOp(Nm("gv"), "RShift", Nm("f"))))

\* def fn(x):
\*     global counter
\*     counter = x >> f
\*     return counter
WritesGlobal ==
    Module(<<FunctionDef("fn", Params(<<"x">>),
                <<Global(<<"counter">>),
                  Assign(<<Name("counter", "Store")>>,
                         BinOp(Nm("x"), "RShift", Nm("f"))),
                  Return(Nm("counter"))>>,
                <<Nm("pyped")>>)>>)

\* def fn(x): 0; return x >> m.attr(5)
CallsAttr ==
    SourceWith("pyped", Expr(Num(0)),
               Return(BinOp(Nm("x"), "RShift",
                            Call(Attribute(Nm("m"), "attr", "Load"), <<Num(5)>>, <<>>))))

ModuleSources == {LocalG, GlobalG, ReadsGlobal, WritesGlobal, CallsAttr}

\* add_hofs as the caller passes it: a dict (its keys), or a set of callables
\* as in tests/test_hof.py
ModuleAddHofs(source) ==
    {[kind |-> "dict", keys |-> {}]}
    \cup (IF source = CallsAttr
          THEN {[kind |-> "dict", keys |-> {<<"m", "attr">>}],
                [kind |-> "set", keys |-> {<<"m", "attr">>}]}
          ELSE {})

Undecorated(source, ah) ==
    [src |-> source, add_hofs |-> ah, pc |-> "defined", hofs |-> {},
     transformer |-> NoneNode, tree |-> NoneNode, ctx |-> NoneNode,
     args |-> <<>>, result |-> NoneV, calls |-> 0]

ModuleInit ==
    /\ default_hof = DEFAULT_HOF
    /\ module_globals = ModuleData
    /\ decorations \in
         {d \in [Decorations -> {Undecorated(s, ah) :
                                    s \in ModuleSources,
                                    ah \in UNION {ModuleAddHofs(t) : t \in ModuleSources}}] :
             \A i \in Decorations : d[i].add_hofs \in ModuleAddHofs(d[i].src)}
    /\ src = NoneNode
    /\ decorator = "pyped"
    /\ add_hofs = {}
    /\ hofs = {}
    /\ phase = "module"
    /\ transformed = NoneNode
    /\ tree = NoneNode
    /\ steps = <<>>
    /\ exc = "None"
    /\ calls = 0
    /\ n_visit = 0
    /\ n_exec = 0
    /\ n_run = 0
    /\ trace = <<>>
    /\ args = <<>>
    /\ result = NoneV
    /\ log = <<>>

svars == <<src, decorator, add_hofs, hofs, phase, transformed, tree, steps, exc,
           calls, n_visit, n_exec, n_run, trace, args, result, log>>

\* mutant of dict_or: the left operand is updated in place (dict.update)
dict_or_in_place(left, right) ==
    [result |-> left \cup right, left |-> left \cup right]

\* left | right on dicts, by their keys: a new dict, and the left operand
\* as the operation leaves it
dict_or(left, right) ==
    [result |-> left \cup right, left |-> left]

\* pyped(add_hofs=...)(obj): hofs = DEFAULT_HOF | (add_hofs or {}); dict | set
\* raises TypeError
Decorate(d) ==
    /\ decorations[d].pc = "defined"
    /\ LET ah == decorations[d].add_hofs
           merged == dict_or(default_hof, ah.keys)
       IN IF ah.kind = "set" /\ ah.keys # {}
          THEN /\ decorations' = [decorations EXCEPT ![d].pc = "raised",
                                                     ![d].result = ErrV("TypeError")]
               /\ UNCHANGED default_hof
          ELSE /\ decorations' = [decorations EXCEPT ![d].pc = "decorated",
                                                     ![d].hofs = merged.result]
               /\ default_hof' = merged.left
    /\ UNCHANGED <<module_globals, svars>>

\* wrapper(*args) finds the cache empty: PipeTransformer(hofs, current_globals)
Construct(d) ==
    /\ decorations[d].pc = "decorated"
    /\ decorations[d].calls < MaxCalls
    /\ \E a \in CallArgs :
          decorations' =
            [decorations EXCEPT
                ![d].pc = "constructed",
                ![d].calls = @ + 1,
                ![d].args = <<a>>,
                ![d].transformer = PipeTransformer(decorations[d].hofs, ModuleGlobals)]
    /\ UNCHANGED <<default_hof, module_globals, svars>>

\* .visit(ast.parse(source)), decorator_list = [], ctx = func.__globals__.copy()
\* and exec(compile(tree), ctx)
Visit(d) ==
    /\ decorations[d].pc = "constructed"
    /\ LET t == visit(decorations[d].transformer, decorations[d].src)
       IN decorations' =
            IF IsRaise(t.val)
            THEN [decorations EXCEPT ![d].pc = "decorated",
                                     ![d].transformer = t.self,
                                     ![d].result = ErrV(t.val.exc)]
            ELSE [decorations EXCEPT ![d].pc = "compiled",
                                     ![d].transformer = t.self,
                                     ![d].tree = StripDecorators(t.val),
                                     ![d].ctx = module_globals]
    /\ UNCHANGED <<default_hof, module_globals, svars>>

\* return transformed(*args, **kwargs) of the call that transformed
FirstCall(d) ==
    /\ decorations[d].pc = "compiled"
    /\ LET r == RunCallIn(decorations[d].tree, decorations[d].args, decorations[d].ctx)
       IN decorations' = [decorations EXCEPT ![d].pc = "cached",
                                             ![d].result = r.result,
                                             ![d].ctx = r.globals]
    /\ UNCHANGED <<default_hof, module_globals, svars>>

\* wrapper(*args) finds the cached definition and calls it
LaterCall(d) ==
    /\ decorations[d].pc = "cached"
    /\ decorations[d].calls < MaxCalls
    /\ \E a \in CallArgs :
          LET r == RunCallIn(decorations[d].tree, <<a>>, decorations[d].ctx)
          IN decorations' = [decorations EXCEPT ![d].calls = @ + 1,
                                                ![d].args = <<a>>,
                                                ![d].result = r.result,
                                                ![d].ctx = r.globals]
    /\ UNCHANGED <<default_hof, module_globals, svars>>

\* the module rebinds one of its data names: gv = 20
Rebind ==
    /\ module_globals["gv"] = IntV(10)
    /\ module_globals' = [module_globals EXCEPT !["gv"] = IntV(20)]
    /\ UNCHANGED <<default_hof, decorations, svars>>

ModuleNext ==
    \/ \E d \in Decorations : Decorate(d)
    \/ \E d \in Decorations : Construct(d)
    \/ \E d \in Decorations : Visit(d)
    \/ \E d \in Decorations : FirstCall(d)
    \/ \E d \in Decorations : LaterCall(d)
    \/ Rebind

ModuleSpec == ModuleInit /\ [][ModuleNext]_vars

\* ---------------------------------------------------------------- claims
SrcExpr == ReturnedExpr(src)

\* the wrapper of pyped has been called and its transformation succeeded
Rewritten == decorator = "pyped" /\ calls > 0 /\ exc = "None"

\* the edges of the last traversal that went through build_pipe_call
BuildSteps == {i \in DOMAIN steps : steps[i].via = "build_pipe_call"}

\* positional and keyword argument values of a call
ArgValues(call) == call.args \o KeywordValues(call.keywords)

\* how often a node occurs in an argument list, starred or not
RECURSIVE CountOcc(_, _)
CountOcc(nodes, n) ==
    IF nodes = <<>> THEN 0
    ELSE (IF Head(nodes) = n \/ Head(nodes) = Starred(n, "Load") THEN 1 ELSE 0)
         + CountOcc(Tail(nodes), n)

IsBareNameChain3(e) ==
    /\ e.type = "BinOp" /\ e.op = "RShift" /\ e.right.type = "Name"
    /\ e.left.type = "BinOp" /\ e.left.op = "RShift" /\ e.left.right.type = "Name"
    /\ e.left.left.type = "BinOp" /\ e.left.left.op = "RShift"
    /\ e.left.left.right.type = "Name"

C2_LeftOccursOnce ==
    decorator = "pyped" =>
        \A i \in BuildSteps :
            ~ IsRaise(steps[i].result) =>
                /\ steps[i].result.type = "Call"
                /\ CountOcc(ArgValues(steps[i].result), steps[i].left)
                   = 1 + (IF steps[i].right.type = "Call"
                          THEN CountOcc(ArgValues(steps[i].right), steps[i].left)
                          ELSE 0)

C2_Witness ==
    /\ Rewritten
    /\ \E i \in BuildSteps :
        /\ steps[i].left.type = "Tuple"
        /\ steps[i].right.type = "Call"
        /\ steps[i].right.args # <<>>
        /\ steps[i].result.args[1] = Starred(steps[i].left, "Load")

IsRegistered(func) ==
    \/ func.type = "Name" /\ <<func.id>> \in hofs
    \/ /\ func.type = "Attribute" /\ func.value.type = "Name"
       /\ <<func.value.id, func.attr>> \in hofs

IsPlainCallStep(i) ==
    /\ i \in BuildSteps
    /\ steps[i].right.type = "Call"
    /\ placeholder_num(steps[i].right.args, steps[i].right.keywords) = 0
    /\ ~ is_ellipsis(steps[i].left)

\* C3: an edge whose right operand is a call f(x1..xn, k1=v1..) without
\* placeholder, f not registered as higher-order function, and whose left
\* operand v is a piped value other than a tuple literal, is rewritten to
\* f(v, x1..xn, k1=v1..): v at index 0, the arguments after it in their
\* order, the keywords unchanged.
C3_PrependsLeft ==
    decorator = "pyped" =>
        \A i \in DOMAIN steps :
            (/\ IsPlainCallStep(i)
             /\ ~ IsRegistered(steps[i].right.func)
             /\ steps[i].left.type # "Tuple")
            => /\ steps[i].result.type = "Call"
               /\ steps[i].result.func = steps[i].right.func
               /\ Head(steps[i].result.args) = steps[i].left
               /\ Tail(steps[i].result.args) = steps[i].right.args
               /\ steps[i].result.keywords = steps[i].right.keywords

C3_Witness ==
    /\ Rewritten
    /\ \E i \in DOMAIN steps :
        /\ IsPlainCallStep(i)
        /\ steps[i].left = Constant("str", 0)
        /\ steps[i].right = Call(Nm("g"), <<Num(1), Nm("x")>>, <<keyword("k1", Num(2))>>)
        /\ steps[i].result = Call(Nm("g"), <<Constant("str", 0), Num(1), Nm("x")>>,
                                  <<keyword("k1", Num(2))>>)

\* C4: under pyped a source expression `l << r`, r a call without
\* placeholder, is rewritten into the call of r with l inserted at the end
\* of its positional arguments (so `x << greet(greeting="Hi")` is rewritten
\* like `x >> greet(greeting="Hi")`).
C4_BackwardPipeRewritten ==
    (/\ Rewritten
     /\ SrcExpr.type = "BinOp" /\ SrcExpr.op = "LShift"
     /\ SrcExpr.right.type = "Call"
     /\ placeholder_num(SrcExpr.right.args, SrcExpr.right.keywords) = 0)
    => ReturnedExpr(tree) =
          Call(SrcExpr.right.func, SrcExpr.right.args \o <<SrcExpr.left>>,
               SrcExpr.right.keywords)

\* the returned expression of the definition that pipes hands to compile
PipedReturn == tree.body[Len(tree.body)].body[2].value

\* C5: pipes rewrites a chain `a << f << c` of backward pipes (as in
\* `10 << subtract << 3`) to the call f(a, c) and returns the rewritten
\* definition.
C5_BackwardChainIsOneCall ==
    (/\ phase = "piped"
     /\ SrcExpr.type = "BinOp" /\ SrcExpr.op = "LShift"
     /\ SrcExpr.right.type = "Constant"
     /\ SrcExpr.left.type = "BinOp" /\ SrcExpr.left.op = "LShift"
     /\ SrcExpr.left.right.type = "Name"
     /\ SrcExpr.left.left.type = "Constant")
    => /\ exc = "None"
       /\ Len(tree.body) = 1
       /\ PipedReturn =
            Call(SrcExpr.left.right, <<SrcExpr.left.left, SrcExpr.right>>, <<>>)

\* C6: an edge whose right operand is a call with exactly one placeholder
\* among its positional and keyword arguments, and whose left operand is a
\* piped value, is rewritten to the same call with that one occurrence
\* replaced by the left operand itself (unstarred, tuple literal or not):
\* the callee, the number and order of the positional arguments and the
\* keyword names are those of the right operand.
C6_PlaceholderReplaced ==
    decorator = "pyped" =>
        \A i \in BuildSteps :
            (/\ steps[i].right.type = "Call"
             /\ placeholder_num(steps[i].right.args, steps[i].right.keywords) = 1
             /\ ~ is_ellipsis(steps[i].left))
            => LET l == steps[i].left
                   r == steps[i].right
                   c == steps[i].result
               IN /\ c.type = "Call"
                  /\ c.func = r.func
                  /\ Len(c.args) = Len(r.args)
                  /\ Len(c.keywords) = Len(r.keywords)
                  /\ \A k \in 1..Len(r.args) :
                        c.args[k] = IF is_ellipsis(r.args[k]) THEN l ELSE r.args[k]
                  /\ \A k \in 1..Len(r.keywords) :
                        /\ c.keywords[k].arg = r.keywords[k].arg
                        /\ c.keywords[k].value =
                              IF is_ellipsis(r.keywords[k].value) THEN l
                              ELSE r.keywords[k].value

C6_Witness ==
    /\ Rewritten
    /\ \E i \in BuildSteps :
        /\ steps[i].left = Tuple(<<Num(1), Num(2)>>)
        /\ steps[i].right = Call(Nm("g"), <<Num(1), Ellipsis>>, <<keyword("k1", Num(2))>>)
        /\ steps[i].result = Call(Nm("g"), <<Num(1), Tuple(<<Num(1), Num(2)>>)>>,
                                  <<keyword("k1", Num(2))>>)

\* a `>>` pipe of the source whose right operand is a call with more than
\* one placeholder
RECURSIVE HasMultiPlaceholderPipe(_), AnyMultiPlaceholderPipe(_)
HasMultiPlaceholderPipe(n) ==
    \/ /\ n.type = "BinOp" /\ n.op = "RShift" /\ n.right.type = "Call"
       /\ placeholder_num(n.right.args, n.right.keywords) > 1
    \/ AnyMultiPlaceholderPipe(Children(n))

AnyMultiPlaceholderPipe(nodes) ==
    /\ nodes # <<>>
    /\ \/ HasMultiPlaceholderPipe(Head(nodes))
       \/ AnyMultiPlaceholderPipe(Tail(nodes))

C8_RaisedAtDecoration ==
    (/\ decorator = "pyped" /\ phase = "decorated" /\ calls = 0
     /\ HasMultiPlaceholderPipe(SrcExpr))
    => exc = PipeTransformError

\* a `>>` pipe of the source whose left operand is the placeholder
RECURSIVE HasEllipsisLeftPipe(_), AnyEllipsisLeftPipe(_)
HasEllipsisLeftPipe(n) ==
    \/ n.type = "BinOp" /\ n.op = "RShift" /\ is_ellipsis(n.left)
    \/ AnyEllipsisLeftPipe(Children(n))

AnyEllipsisLeftPipe(nodes) ==
    /\ nodes # <<>>
    /\ \/ HasEllipsisLeftPipe(Head(nodes))
       \/ AnyEllipsisLeftPipe(Tail(nodes))

\* C9: when the source holds a `>>` pipe whose left operand is the `...`
\* placeholder, whatever its right operand (call, bare name, lambda or
\* binding expression), the rewriting is rejected with PipeTransformError.
C9_EllipsisLeftRejected ==
    (decorator = "pyped" /\ calls > 0 /\ HasEllipsisLeftPipe(SrcExpr))
    => exc = PipeTransformError

\* C10: an edge whose right operand is a call without placeholder to a bare
\* name or module.attr name registered as higher-order function gets the
\* left operand appended as last positional argument, unstarred also when
\* it is a tuple literal; a call to a bare name that is not registered gets
\* the left operand (starred or not) at index 0.
C10_RegisteredDataLast ==
    decorator = "pyped" =>
        \A i \in DOMAIN steps :
            IsPlainCallStep(i) =>
                LET l == steps[i].left
                    r == steps[i].right
                    c == steps[i].result
                IN /\ IsRegistered(r.func) =>
                        c = Call(r.func, r.args \o <<l>>, r.keywords)
                   /\ (r.func.type = "Name" /\ ~ IsRegistered(r.func)) =>
                        /\ c.func = r.func
                        /\ Head(c.args) \in {l, Starred(l, "Load")}
                        /\ Tail(c.args) = r.args

C10_Witness ==
    /\ Rewritten
    /\ add_hofs = {<<"m", "attr">>}
    /\ \E i \in DOMAIN steps :
        /\ IsPlainCallStep(i)
        /\ steps[i].left = Tuple(<<Num(1), Num(2)>>)
        /\ steps[i].right = Call(Attribute(Nm("m"), "attr", "Load"), <<Nm("x")>>, <<>>)
        /\ steps[i].result = Call(Attribute(Nm("m"), "attr", "Load"),
                                  <<Nm("x"), Tuple(<<Num(1), Num(2)>>)>>, <<>>)

OneTwo == Tuple(<<Num(1), Num(2)>>)
OneTwoV == TupV(<<IntV(1), IntV(2)>>)

\* C11: an edge whose left operand is a tuple literal t and whose right
\* operand is an inline lambda is rewritten to lambda(*t) when the lambda
\* has a number of positional parameters other than 1, and to lambda(t)
\* when it has exactly 1; `(1, 2) >> (lambda a, b: a + b)` returns 3, and
\* `(1, 2) >> (lambda a: a + 1)` calls the lambda with the one argument
\* (1, 2), which ends in the TypeError of `(1, 2) + 1`.
C11_LambdaSplatIffNotUnary ==
    decorator = "pyped" =>
        /\ \A i \in BuildSteps :
              (steps[i].left.type = "Tuple" /\ steps[i].right.type = "Lambda") =>
                 LET lam == steps[i].right
                     num_pos == Len(lam.args.posonlyargs) + Len(lam.args.args)
                 IN steps[i].result =
                        Call(lam, IF num_pos # 1
                                  THEN <<Starred(steps[i].left, "Load")>>
                                  ELSE <<steps[i].left>>, <<>>)
        /\ (calls > 0 /\ SrcExpr = BinOp(OneTwo, "RShift",
                Lambda(Params(<<"a", "b">>), BinOp(Nm("a"), "Add", Nm("b")))))
           => result = IntV(3)
        /\ (calls > 0 /\ SrcExpr = BinOp(OneTwo, "RShift",
                Lambda(Params(<<"a">>), BinOp(Nm("a"), "Add", Num(1)))))
           => /\ result = ErrV("TypeError")
              /\ log[Len(log)] = [f |-> "<lambda>", args |-> <<OneTwoV>>, kw |-> <<>>]

C11_Witness ==
    /\ Rewritten
    /\ SrcExpr = BinOp(OneTwo, "RShift",
                       Lambda(Params(<<"a", "b">>), BinOp(Nm("a"), "Add", Nm("b"))))
    /\ ReturnedExpr(tree).args = <<Starred(OneTwo, "Load")>>
    /\ result = IntV(3)

\* the parameters of the def of this name that the traversal has visited
\* when it reaches the returned expression: the decorated function itself
\* or the def that opens its body; NoneNode for any other name
ProfiledArgs(name) ==
    LET top == src.body[1]
    IN IF name = top.name THEN top.args
       ELSE IF top.body[1].type = "FunctionDef" /\ top.body[1].name = name
       THEN top.body[1].args
       ELSE NoneNode

\* the callee of an edge: the function of a call, else the right operand
Callee(i) ==
    IF steps[i].right.type = "Call" THEN steps[i].right.func ELSE steps[i].right

\* the object a callee resolves to in the module globals, or "None"
Resolved(func) ==
    CASE func.type = "Name" -> DictGet(ModuleGlobals, func.id)
      [] func.type = "Attribute" -> resolve_attribute(func, ModuleGlobals)
      [] OTHER -> "None"

\* positional parameters of a callee, all of them and those without a
\* default; -1 when the callee is neither a lambda, nor a local function,
\* nor a function of the module globals
PositionalCount(func) ==
    CASE func.type = "Lambda" -> Len(func.args.posonlyargs) + Len(func.args.args)
      [] func.type = "Name" /\ ProfiledArgs(func.id) # NoneNode ->
            Len(ProfiledArgs(func.id).posonlyargs) + Len(ProfiledArgs(func.id).args)
      [] func.type \in {"Name", "Attribute"} /\ Resolved(func) # "None"
         /\ ObjSignature(Resolved(func)).raises = "None" ->
            ObjSignature(Resolved(func)).positional
      [] OTHER -> -1

RequiredCount(func) ==
    CASE func.type = "Lambda" -> PositionalCount(func) - Len(func.args.defaults)
      [] func.type = "Name" /\ ProfiledArgs(func.id) # NoneNode ->
            PositionalCount(func) - Len(ProfiledArgs(func.id).defaults)
      [] func.type \in {"Name", "Attribute"} /\ Resolved(func) # "None"
         /\ ObjSignature(Resolved(func)).raises = "None" ->
            ObjSignature(Resolved(func)).required
      [] OTHER -> -1

IsLocalOrLambda(func) ==
    \/ func.type = "Lambda"
    \/ func.type = "Name" /\ ProfiledArgs(func.id) # NoneNode

\* the rewritten call passes the left operand starred
Splatted(i) ==
    /\ steps[i].result.type = "Call"
    /\ \E k \in DOMAIN steps[i].result.args :
          steps[i].result.args[k] = Starred(steps[i].left, "Load")

FirstParamIsSequence(func) ==
    CASE func.type = "Name" /\ ProfiledArgs(func.id) # NoneNode ->
            LET params == ProfiledArgs(func.id).posonlyargs \o ProfiledArgs(func.id).args
            IN /\ params # <<>>
               /\ params[1].annotation.type = "Name"
               /\ params[1].annotation.id \in {"list", "tuple", "Sequence"}
      [] func.type \in {"Name", "Attribute"} /\ Resolved(func) # "None" ->
            ObjFirstAnnotationIsSeq(Resolved(func))
      [] OTHER -> FALSE

\* C13: when the first parameter of the callee is annotated with a
\* sequence type, a tuple-literal left operand is never splatted, for a
\* local and for a global function, for the bare callee and for a call
\* of it.
C13_SequenceFirstParamNeverSplat ==
    decorator = "pyped" =>
        \A i \in DOMAIN steps : FirstParamIsSequence(Callee(i)) => ~ Splatted(i)

\* the callee cannot be resolved before the run: a name or attribute chain
\* that is no local function and that the module globals do not resolve
\* (a builtin, a local variable, an attribute of an unknown object)
Unresolvable(func) ==
    /\ func.type \in {"Name", "Attribute"}
    /\ ~ IsLocalOrLambda(func)
    /\ Resolved(func) = "None"

\* C14: when the callee cannot be resolved, a tuple-literal left operand
\* is passed as one argument and is not splatted.
C14_UnresolvableNeverSplat ==
    decorator = "pyped" =>
        \A i \in DOMAIN steps :
            (steps[i].left.type = "Tuple" /\ Unresolvable(Callee(i))) => ~ Splatted(i)

\* how often a node occurs unstarred in an argument list
RECURSIVE CountPlain(_, _)
CountPlain(nodes, n) ==
    IF nodes = <<>> THEN 0
    ELSE (IF Head(nodes) = n THEN 1 ELSE 0) + CountPlain(Tail(nodes), n)

C16_RuntimeTupleUnpacked ==
    Rewritten =>
        /\ SrcExpr = BinOp(BinOp(OneTwo, "RShift", Nm("multiply_and_add")),
                           "RShift", Nm("add"))
           => result = IntV(5)
        /\ (SrcExpr = BinOp(Nm("x"), "RShift", Nm("add"))
            /\ args = <<TupV(<<IntV(3), IntV(4)>>)>>)
           => result = IntV(7)

\* the first statement of the decorated function is a binding chain
\* (a := v) >> (b := p) >> (c := q)
IsWalrusSource == src.body[1].body[1] \in {Expr(e) : e \in WalrusChains}

IsConditionalSource == src.body[1].body[1] \in Conditionals

\* the statement (res := v) >> effect >> print after rewriting
RewrittenArm(stmt) ==
    Expr(Call(Nm("print"), <<Call(Nm("effect"), <<stmt.value.left.left>>, <<>>)>>, <<>>))

\* C18: pipes in the arms of a conditional are rewritten in place: each
\* arm keeps its own rewritten statement, and a call runs only the arm
\* taken: effect is called once, with the value bound in that arm, and
\* the function returns that value.
C18_ArmsRewrittenInPlace ==
    (Rewritten /\ IsConditionalSource) =>
        LET c == src.body[1].body[1]
            taken == IF Truthy(args[1]) THEN c.body ELSE c.orelse
            v == ConstValue(taken[1].value.left.left.value)
        IN /\ tree.body[1].body[1]
              = If(c.test, <<RewrittenArm(c.body[1])>>, <<RewrittenArm(c.orelse[1])>>)
           /\ result = v
           /\ log = <<[f |-> "fn", args |-> args, kw |-> <<>>],
                      [f |-> "effect", args |-> <<v>>, kw |-> <<>>],
                      [f |-> "print", args |-> <<BinaryOp("Mult", v, v)>>, kw |-> <<>>]>>

C18_Witness ==
    /\ Rewritten /\ IsConditionalSource
    /\ ~ Truthy(args[1])
    /\ result = IntV(3)
    /\ \E k \in DOMAIN log : log[k] = [f |-> "effect", args |-> <<IntV(3)>>, kw |-> <<>>]

\* C19: the operands of a pipe are evaluated left to right, so a name
\* bound inside the left operand is bound when the right operand reads
\* it: running (a := v) >> right-operand-reading-a never finds the name
\* unbound, and (a := m) >> a.one calls m.one with m.
C19_LeftEvaluatedFirst ==
    (Rewritten /\ SrcExpr \in OrderExprs) =>
        /\ result # ErrV("UnboundLocalError")
        /\ SrcExpr = BinOp(NamedExpr(Name("a", "Store"), Nm("m")), "RShift",
                           Attribute(Nm("a"), "one", "Load"))
           => \E k \in DOMAIN log : log[k].f = "one"

\* C20: the wrapper never calls the original definition.  When the
\* transformation raises, the call ends with that exception, no function
\* body has run, the cache stays empty and every later call transforms
\* again and fails again; when it succeeds, what is called is the cached
\* transformed definition.
C20_NeverRunsOriginal ==
    (decorator = "pyped" /\ calls > 0) =>
        IF exc # "None"
        THEN /\ transformed = NoneNode
             /\ n_visit = calls
             /\ n_exec = 0 /\ n_run = 0
             /\ result = ErrV(exc)
             /\ log = <<>>
        ELSE /\ transformed # NoneNode
             /\ n_visit = 1
             /\ n_run = calls
             /\ result = RunCall(transformed, args).result
             /\ log = RunCall(transformed, args).log

C20_Witness ==
    /\ decorator = "pyped"
    /\ calls = 2
    /\ SrcExpr = BinOp(Ellipsis, "RShift", Nm("f"))
    /\ exc = PipeTransformError
    /\ transformed = NoneNode
    /\ n_visit = 2
    /\ result = ErrV(PipeTransformError)

\* the transformer as the traversal of the decorated definition leaves it
FinalSelf == visit(PipeTransformer(hofs, ModuleGlobals), src).self

\* the edges of the last traversal whose right operand is a binding
BindingSteps == {i \in DOMAIN steps : steps[i].via = "NamedExpr"}

\* C25: a pipe step into a binding expression name := value builds the call
\* it binds by the rules of an unbound step into value: the call under the
\* binding is the call build_pipe_call yields for the same left operand
\* and value (placeholder replaced, data appended for a registered
\* function, tuple literal splatted).
C25_BindingBuildsLikePipe ==
    decorator = "pyped" =>
        \A i \in BindingSteps :
            steps[i].result = build_pipe_call(FinalSelf, steps[i].left, steps[i].right)

\* C26: outside comprehensions a pipe step into a binding expression
\* target := value leaves a plain reference to target at the expression
\* position, and one synthesized assignment target = <call> is emitted
\* immediately before the enclosing statement.
C26_BindingHoistedAsAssignment ==
    (Rewritten /\ IsBindingPipe(SrcExpr)) =>
        LET body == tree.body[1].body
            n == Len(body)
            target == SrcExpr.right.target.id
        IN /\ n = Len(src.body[1].body) + 1
           /\ body[n] = Return(Nm(target))
           /\ body[n - 1].type = "Assign"
           /\ body[n - 1].targets = <<Name(target, "Store")>>
           /\ body[n - 1].value.type = "Call"

\* C28: when the right operand of a pipe is itself a parenthesised pipe,
\* a >> (b >> c) is rewritten to (c(b))(a): the result of the inner pipe
\* is called with a, and a is not merged into the arguments of the inner
\* call.
C28_ParenthesisedPipeIsCallee ==
    (Rewritten /\ SrcExpr \in ParenPipes) =>
        ReturnedExpr(tree)
        = Call(Call(SrcExpr.right.right, <<SrcExpr.right.left>>, <<>>),
               <<SrcExpr.left>>, <<>>)

\* an operand of ArithOperands after rewriting: v >> c becomes c(v), with
\* the tuple literal starred for the two-parameter g; anything else stays
IsPipeOperand(e) == e.type = "BinOp" /\ e.op = "RShift"

PipedOperand(e) ==
    IF IsPipeOperand(e)
    THEN Call(e.right, <<IF e.left.type = "Tuple" THEN Starred(e.left, "Load")
                         ELSE e.left>>, <<>>)
    ELSE e

\* C23: a binary expression whose operator is no pipe operator keeps its
\* operator and the order of its operands, only the pipes inside its
\* operands are rewritten, and no call is made of it: 5 + (lambda a: a * 2)
\* stays as written and raises TypeError when run.
C23_OtherOperatorsKept ==
    (Rewritten /\ SrcExpr \in ArithExprs) =>
        /\ ReturnedExpr(tree)
           = BinOp(PipedOperand(SrcExpr.left), SrcExpr.op, PipedOperand(SrcExpr.right))
        /\ Len(steps) = (IF IsPipeOperand(SrcExpr.left) THEN 1 ELSE 0)
                        + (IF IsPipeOperand(SrcExpr.right) THEN 1 ELSE 0)
        /\ SrcExpr = BinOp(Num(5), "Add",
                           Lambda(Params(<<"a">>), BinOp(Nm("a"), "Mult", Num(2))))
           => result = ErrV("TypeError")

C23_Witness ==
    /\ Rewritten
    /\ SrcExpr = BinOp(BinOp(Nm("x"), "RShift", Nm("f")), "Add",
                       BinOp(Num(3), "RShift", Nm("f")))
    /\ ReturnedExpr(tree) = BinOp(Call(Nm("f"), <<Nm("x")>>, <<>>), "Add",
                                  Call(Nm("f"), <<Num(3)>>, <<>>))
    /\ args = <<IntV(0)>>
    /\ result = IntV(5)

\* the decorated function opens with a local function that nests another
IsNestedDefSource == src.body[1].body[1] \in NestedDefs

\* C27: the statements process_body returns for a nested block are the
\* rewritten statements of that block, in their order, and nothing else:
\* nothing queued in an enclosing block shows up in it.  No queue holds
\* anything when a traversal ends.
C27_NestedBlockKeepsOwnStatements ==
    decorator = "pyped" =>
        /\ FinalSelf.current_block_assignments = <<>>
        /\ (Rewritten /\ IsNestedDefSource) =>
              LET loc == src.body[1].body[1]
                  p == loc.body[1].value.right.value
                  q == loc.body[2].body[1].value.right
              IN tree.body[1].body[1]
                 = FunctionDef("loc", loc.args,
                      <<Expr(NamedExpr(Name("r", "Store"), Call(p, <<Nm("a")>>, <<>>))),
                        FunctionDef("inner", loc.body[2].args,
                                    <<Return(Call(q, <<Nm("b")>>, <<>>))>>, <<>>),
                        Return(Call(Nm("inner"), <<Nm("r")>>, <<>>))>>, <<>>)

C27_Witness ==
    /\ Rewritten /\ IsNestedDefSource
    /\ Len(tree.body[1].body[1].body) = 3
    /\ tree.body[1].body[1].body[2].body = <<Return(Call(Nm("f"), <<Nm("b")>>, <<>>))>>
    /\ args = <<IntV(0)>>
    /\ result = IntV(2)

\* C29: over the sequential calls of one decorated definition the
\* transformation runs once: a call that finds the cache filled traverses
\* and compiles nothing and leaves the cached definition as it is, and the
\* cache is filled by the one traversal of the first call.  The call that
\* fills the cache is the first one.
C29_TransformedOnce ==
    [][/\ transformed # NoneNode =>
            /\ n_visit = 1 /\ n_exec = 1
            /\ transformed' = transformed
            /\ n_visit' = n_visit /\ n_exec' = n_exec
            /\ tree' = tree /\ steps' = steps
       /\ (transformed = NoneNode /\ transformed' # NoneNode) =>
            /\ calls = 0
            /\ n_visit' = 1 /\ n_exec' = 1]_vars

C29_Witness ==
    /\ decorator = "pyped"
    /\ calls = 2
    /\ transformed # NoneNode
    /\ n_visit = 1 /\ n_exec = 1 /\ n_run = 2
    /\ SrcExpr = BinOp(Nm("x"), "RShift", Nm("f"))
    /\ result = IntV(1)

\* the decorators written above the definition
SrcDecorators == src.body[1].decorator_list

\* C22: the rewriting takes the decorator's own marker off the definition
\* and nothing else: a decorator stacked below it is still on the rewritten
\* definition that is compiled.
C22_OtherDecoratorsKept ==
    (Rewritten /\ Len(SrcDecorators) > 1) =>
        tree.body[1].decorator_list = Tail(SrcDecorators)

\* the definition alone: traversed by a transformer whose tables are empty
Alone(source, registry) ==
    StripDecorators(visit([hofs |-> registry, current_globals |-> ModuleGlobals,
                           function_params |-> EmptyDict,
                           current_block_assignments |-> <<>>,
                           steps |-> <<>>], source).val)

\* the wrapper of decoration d holds a compiled definition
Compiled(d) == decorations[d].pc \in {"compiled", "cached"}

\* C21: a call of the rewritten definition reads and writes the namespace of
\* the module: it returns what a run of the rewritten body in the module
\* globals as they are at the call returns, and the module globals after the
\* call are those that run leaves.
C21_SameGlobalNamespace ==
    [][\A d \in Decorations :
          (FirstCall(d) \/ LaterCall(d)) =>
              /\ decorations'[d].result
                 = RunCallIn(decorations[d].tree, decorations'[d].args,
                             module_globals).result
              /\ module_globals'
                 = RunCallIn(decorations[d].tree, decorations'[d].args,
                             module_globals).globals]_vars

C30_NoSharedRewriterState ==
    \A d \in DOMAIN decorations :
        /\ decorations[d].pc = "constructed" =>
              /\ decorations[d].transformer.function_params = EmptyDict
              /\ decorations[d].transformer.current_block_assignments = <<>>
        /\ Compiled(d) =>
              decorations[d].tree
              = Alone(decorations[d].src,
                      DEFAULT_HOF \cup decorations[d].add_hofs.keys)

C30_Witness ==
    /\ DOMAIN decorations = Decorations
    /\ decorations[1].src = LocalG /\ decorations[2].src = GlobalG
    /\ decorations[1].pc = "cached"
    /\ "g" \in DOMAIN decorations[1].transformer.function_params
    /\ decorations[2].pc = "cached"
    /\ ReturnedExpr(decorations[2].tree)
       = Call(Nm("g"), <<Starred(Tuple(<<Num(1), Num(2)>>), "Load")>>, <<>>)
    /\ decorations[2].result = IntV(3)

====
